---- MODULE Spec2Model ----
(***************************************************************************)
(* copyplop: the header normalization engine (Fixer.fixFile and            *)
(* Fixer.ProcessContent) together with the Config predicates it calls.     *)
(*                                                                         *)
(* Text is a sequence of atomic tokens.  A token stands for a run of       *)
(* characters that no literal, prefix, suffix or pattern of the program    *)
(* splits: every string the code compares, cuts or searches for is a       *)
(* concatenation of whole tokens ("#!" is the two tokens "#" and "!",      *)
(* because the code cuts the prefix "#").  A file's content is one token   *)
(* sequence in which NL is the newline byte; strings.Split and             *)
(* strings.Join convert between content and lines.                         *)
(***************************************************************************)
EXTENDS Integers, Sequences, FiniteSets, TLC

VARIABLES
    cfg,      \* the configuration of the run
    name,     \* the file's name
    orig,     \* the file's content before the tool ran
    disk,     \* the file's content on disk
    before,   \* the content the last fixFile call read
    ret,      \* what the last fixFile call returned
    runs,     \* the number of fixFile calls so far
    loc,      \* locals of the last fixFile call
    out1,     \* ProcessContent(orig)
    out2,     \* ProcessContent(out1)
    pcRuns,   \* the number of ProcessContent calls so far
    Fixed,    \* FixResult.Fixed: the number of calls of fixFile that returned true
    probe     \* the calls of a Config method so far: arguments and results

vars == <<cfg, name, orig, disk, before, ret, runs, loc, out1, out2, pcRuns, Fixed, probe>>

SP == " "
NL == "\n"

\* ------------------------------------------------------------ strings

RECURSIVE TrimLeft(_)
TrimLeft(s) == IF s # <<>> /\ Head(s) = SP THEN TrimLeft(Tail(s)) ELSE s

RECURSIVE TrimRight(_)
TrimRight(s) ==
    IF s # <<>> /\ s[Len(s)] = SP THEN TrimRight(SubSeq(s, 1, Len(s) - 1)) ELSE s

TrimSpace(s) == TrimRight(TrimLeft(s))

HasPrefix(s, p) == Len(s) >= Len(p) /\ SubSeq(s, 1, Len(p)) = p

HasSuffix(s, p) == Len(s) >= Len(p) /\ SubSeq(s, Len(s) - Len(p) + 1, Len(s)) = p

\* strings.CutPrefix: the rest after p (only used where HasPrefix holds)
CutPrefix(s, p) == SubSeq(s, Len(p) + 1, Len(s))

TrimSuffix(s, p) == IF HasSuffix(s, p) THEN SubSeq(s, 1, Len(s) - Len(p)) ELSE s

Contains(s, p) == \E k \in 0..(Len(s) - Len(p)) : SubSeq(s, k + 1, k + Len(p)) = p

\* strings.Split(content, "\n"): never empty, one more line than newlines
RECURSIVE SplitFrom(_, _, _)
SplitFrom(s, i, cur) ==
    IF i > Len(s) THEN <<cur>>
    ELSE IF s[i] = NL THEN <<cur>> \o SplitFrom(s, i + 1, <<>>)
    ELSE SplitFrom(s, i + 1, Append(cur, s[i]))

Split(s) == SplitFrom(s, 1, <<>>)

\* strings.Join(lines, "\n")
RECURSIVE Join(_)
Join(ls) ==
    IF ls = <<>> THEN <<>>
    ELSE IF Len(ls) = 1 THEN ls[1]
    ELSE ls[1] \o <<NL>> \o Join(Tail(ls))

\* ------------------------------------------------------------ regexp

\* A configured pattern is a sequence of literal tokens and ANY (".*").
ANY == ".*"

RECURSIVE MatchHere(_, _)
MatchHere(pat, s) ==
    IF pat = <<>> THEN TRUE
    ELSE IF Head(pat) = ANY
         THEN \E k \in 0..Len(s) : MatchHere(Tail(pat), SubSeq(s, k + 1, Len(s)))
         ELSE s # <<>> /\ Head(s) = Head(pat) /\ MatchHere(Tail(pat), Tail(s))

\* regexp.MatchString: unanchored
MatchString(pat, s) == \E k \in 0..Len(s) : MatchHere(pat, SubSeq(s, k + 1, Len(s)))

MatchesAny(pats, s) == \E i \in 1..Len(pats) : MatchString(pats[i], s)

\* \d{4}: the four-digit tokens of the model
IsYear(t) == t \in {"2014", "2024", "2025"}

\* ^Copyright\s+<holder>\s+\d{4}(,\s*\d{4})?$
MatchOwnPattern(c, holder) ==
    /\ Len(c) >= 2 /\ c[1] = "Copyright" /\ c[2] = SP
    /\ LET r2 == TrimLeft(Tail(c)) IN
       /\ Len(r2) >= 2 /\ r2[1] = holder /\ r2[2] = SP
       /\ LET r4 == TrimLeft(Tail(r2)) IN
          /\ r4 # <<>> /\ IsYear(r4[1])
          /\ LET r5 == Tail(r4) IN
             \/ r5 = <<>>
             \/ /\ r5[1] = ","
                /\ LET r6 == TrimLeft(Tail(r5)) IN Len(r6) = 1 /\ IsYear(r6[1])

\* SPDX-License-Identifier:\s*"?[^"]*"?  (unanchored; every factor after the
\* literal also matches the empty string)
MatchSPDXPattern(c) == Contains(c, <<"SPDX-License-Identifier:">>)

\* ------------------------------------------------------------ config

\* text/template: expand the placeholders of a format against the fields
Expand(fmt, fields) ==
    [i \in 1..Len(fmt) |->
        IF fmt[i] \in DOMAIN fields THEN fields[fmt[i]] ELSE fmt[i]]

CopyrightFields(c) ==
    [x \in {"{{.Holder}}", "{{.StartYear}}", "{{.CurrentYear}}"} |->
        IF x = "{{.Holder}}" THEN c.holder
        ELSE IF x = "{{.StartYear}}" THEN ToString(c.startYear)
        ELSE ToString(c.currentYear)]

LicenseFields(c) == [x \in {"{{.Identifier}}"} |-> c.identifier]

\* strings.TrimPrefix(ext, ".") then ReplaceAll(".", "_")
ExtKey(ext) ==
    IF ext = ".go" THEN "go"
    ELSE IF ext = ".sh" THEN "sh"
    ELSE IF ext = ".py" THEN "py"
    ELSE IF ext = ".md" THEN "md"
    ELSE IF ext = ".js" THEN "js"
    ELSE IF ext = ".yml" THEN "yml"
    ELSE IF ext = ".yaml" THEN "yaml"
    ELSE IF ext = ".tf" THEN "tf"
    ELSE IF ext = ".hcl" THEN "hcl"
    ELSE IF ext = ".html.markdown" THEN "html_markdown"
    ELSE IF ext = ".txt" THEN "txt"
    ELSE IF ext = ".gtpl" THEN "gtpl"
    ELSE ext

\* the configured comment style, "" when the map has no such key
ConfiguredStyle(c, ext) ==
    IF ExtKey(ext) \in DOMAIN c.commentStyles THEN c.commentStyles[ExtKey(ext)] ELSE ""

CommentPrefix(c, ext) ==
    IF ConfiguredStyle(c, ext) # "" THEN ConfiguredStyle(c, ext)
    ELSE IF ext = ".go" THEN "//"
    ELSE IF ext \in {".sh", ".py", ".hcl", ".tf", ".yml", ".yaml"} THEN "#"
    ELSE IF ext \in {".md", ".html.markdown"} THEN "<!--"
    ELSE "//"

\* strings.Contains(content, ":"): the tokens that hold a colon
HasColon(text) ==
    \E i \in 1..Len(text) :
        text[i] \in {":", "SPDX-License-Identifier:", "layout:", "subcategory:"}

\* a faulty Render: YAML text with a colon is not quoted
Render_NoYAMLQuotes(prefix, ext, text) ==
    IF prefix = "<!--" THEN <<prefix, SP>> \o text \o <<SP, "-->">>
    ELSE IF prefix = "/**" THEN <<SP, "*", SP>> \o text
    ELSE <<prefix, SP>> \o text

Render(prefix, ext, text) ==
    IF prefix = "<!--" THEN <<prefix, SP>> \o text \o <<SP, "-->">>
    ELSE IF prefix = "/**" THEN <<SP, "*", SP>> \o text
    ELSE IF ext \in {".yml", ".yaml"} /\ HasColon(text)
         THEN <<prefix, SP, "\"">> \o text \o <<"\"">>
    ELSE <<prefix, SP>> \o text

GetCopyrightHeader(c, ext) ==
    Render(CommentPrefix(c, ext), ext, Expand(c.format, CopyrightFields(c)))

\* "" (the empty string) when the license is disabled
GetLicenseHeader(c, ext) ==
    IF ~c.licenseEnabled THEN <<>>
    ELSE Render(CommentPrefix(c, ext), ext, Expand(c.licenseFormat, LicenseFields(c)))

\* a faulty IsGenerated: every line of the file is tested
IsGenerated_AnyLine(c, lines) ==
    IF ~c.skipGenerated \/ Len(lines) = 0 THEN FALSE
    ELSE \E i \in 1..Len(c.generatedPatterns) : \E k \in 1..Len(lines) :
            MatchString(c.generatedPatterns[i], lines[k])

IsGenerated(c, lines) ==
    IF ~c.skipGenerated \/ Len(lines) = 0 THEN FALSE
    ELSE \E i \in 1..Len(c.generatedPatterns) :
            \/ MatchString(c.generatedPatterns[i], lines[1])
            \/ (Len(lines) > 1 /\ MatchString(c.generatedPatterns[i], lines[2]))

ShouldReplace(c, line) == MatchesAny(c.replacePatterns, line)

\* a faulty IsThirdPartyCopyright: the replace patterns are not consulted
IsThirdPartyCopyright_NoPrecedence(c, line) == MatchesAny(c.thirdPartyPatterns, line)

IsThirdPartyCopyright(c, line) ==
    IF ShouldReplace(c, line) THEN FALSE
    ELSE MatchesAny(c.thirdPartyPatterns, line)

IsOwnCopyrightLine(c, line, ext) ==
    LET prefix == CommentPrefix(c, ext) IN
    IF prefix = "/**"
    THEN /\ HasPrefix(line, <<SP, "*", SP>>)
         /\ MatchOwnPattern(TrimSpace(CutPrefix(line, <<SP, "*", SP>>)), c.holder)
    ELSE LET trimmed == TrimSpace(line) IN
         /\ HasPrefix(trimmed, <<prefix>>)
         /\ LET content == TrimSpace(CutPrefix(trimmed, <<prefix>>)) IN
            MatchOwnPattern(
                IF prefix = "<!--" THEN TrimSpace(TrimSuffix(content, <<"-->">>))
                ELSE content,
                c.holder)

isSPDXHeaderLine(line, commentPrefix) ==
    IF commentPrefix = "/**"
    THEN /\ HasPrefix(line, <<SP, "*", SP>>)
         /\ MatchSPDXPattern(TrimSpace(CutPrefix(line, <<SP, "*", SP>>)))
    ELSE LET trimmed == TrimSpace(line) IN
         /\ HasPrefix(trimmed, <<commentPrefix>>)
         /\ MatchSPDXPattern(TrimSpace(CutPrefix(trimmed, <<commentPrefix>>)))

\* ------------------------------------------------------------ malformed patterns

\* a group that is never closed: regexp.MustCompile panics on the pattern
MalformedRegexp(pattern) == \E i \in 1..Len(pattern) : pattern[i] = "("

\* the loop "re := regexp.MustCompile(pattern); if re.MatchString(..) return
\* true" over the patterns from the k-th on, on the texts it is matched
\* against: "panic" when a pattern is reached that does not compile
RECURSIVE CompileAndMatch(_, _, _)
CompileAndMatch(patterns, texts, k) ==
    IF k > Len(patterns) THEN "false"
    ELSE IF MalformedRegexp(patterns[k]) THEN "panic"
    ELSE IF \E t \in 1..Len(texts) : MatchString(patterns[k], texts[t]) THEN "true"
    ELSE CompileAndMatch(patterns, texts, k + 1)

\* Config.IsGenerated, Config.ShouldReplace and Config.IsThirdPartyCopyright
\* with the outcome of compiling each pattern
IsGeneratedOutcome(c, lines) ==
    IF ~c.skipGenerated \/ Len(lines) = 0 THEN "false"
    ELSE CompileAndMatch(c.generatedPatterns,
                         IF Len(lines) > 1 THEN <<lines[1], lines[2]>> ELSE <<lines[1]>>, 1)

ShouldReplaceOutcome(c, line) == CompileAndMatch(c.replacePatterns, <<line>>, 1)

IsThirdPartyCopyrightOutcome(c, line) ==
    IF ShouldReplaceOutcome(c, line) = "panic" THEN "panic"
    ELSE IF ShouldReplaceOutcome(c, line) = "true" THEN "false"
    ELSE CompileAndMatch(c.thirdPartyPatterns, <<line>>, 1)

\* ------------------------------------------------------------ paths

\* a path and a glob pattern are token sequences in which "/" separates the
\* segments; in a pattern "*" and "**" are the wildcards and "[" opens a
\* character class
SLASH == "/"

STAR == "*"

DSTAR == "**"

\* a class that is never closed: doublestar.ErrBadPattern
MalformedGlob(pattern) == \E i \in 1..Len(pattern) : pattern[i] = "["

\* the match of a well-formed pattern: "*" stays within a segment, "**/"
\* stands for zero or more directories, a trailing "/**" for anything below
RECURSIVE Glob(_, _)
Glob(p, s) ==
    IF p = <<>> THEN s = <<>>
    ELSE IF p[1] = DSTAR
    THEN IF Len(p) = 1 THEN TRUE
         ELSE LET rest == SubSeq(p, 3, Len(p)) IN
              \/ Glob(rest, s)
              \/ \E i \in 1..Len(s) : s[i] = SLASH /\ Glob(rest, SubSeq(s, i + 1, Len(s)))
    ELSE IF p[1] = STAR
    THEN \E k \in 0..Len(s) :
            /\ \A j \in 1..k : s[j] # SLASH
            /\ Glob(Tail(p), SubSeq(s, k + 1, Len(s)))
    ELSE IF p = <<SLASH, DSTAR>> /\ s = <<>> THEN TRUE
    ELSE s # <<>> /\ s[1] = p[1] /\ Glob(Tail(p), Tail(s))

\* matched, _ := doublestar.Match(pattern, path): false with the error dropped
doublestarMatch(pattern, path) ==
    IF MalformedGlob(pattern) THEN FALSE ELSE Glob(pattern, path)

matchesPath(pattern, path) ==
    \/ doublestarMatch(pattern, path)
    \/ IF HasSuffix(pattern, <<SLASH, STAR>>)
       THEN doublestarMatch(TrimSuffix(pattern, <<SLASH, STAR>>) \o <<SLASH, DSTAR>>, path)
       ELSE /\ ~HasSuffix(pattern, <<SLASH, DSTAR>>)
            /\ doublestarMatch(pattern \o <<SLASH, DSTAR>>, path)

\* a faulty shouldProcessPath: a file that matches an include pattern is
\* processed without a look at the exclude patterns
shouldProcessPath_IncludeFirst(c, file) ==
    LET hasIncludes == Len(c.includePaths) > 0
        hasExcludes == Len(c.excludePaths) > 0
    IN IF ~hasIncludes /\ ~hasExcludes THEN TRUE
       ELSE IF hasIncludes
            THEN \E k \in 1..Len(c.includePaths) : matchesPath(c.includePaths[k], file)
       ELSE ~\E k \in 1..Len(c.excludePaths) : matchesPath(c.excludePaths[k], file)

shouldProcessPath(c, file) ==
    LET hasIncludes == Len(c.includePaths) > 0
        hasExcludes == Len(c.excludePaths) > 0
    IN IF ~hasIncludes /\ ~hasExcludes THEN TRUE
       ELSE IF hasExcludes
               /\ \E k \in 1..Len(c.excludePaths) : matchesPath(c.excludePaths[k], file)
       THEN FALSE
       ELSE IF hasIncludes
       THEN \E k \in 1..Len(c.includePaths) : matchesPath(c.includePaths[k], file)
       ELSE TRUE

hasValidExt(c, file) ==
    \/ \E k \in 1..Len(c.extensions) : HasSuffix(file, c.extensions[k])
    \/ \E k \in 1..Len(c.smartExtensions) : HasSuffix(file, c.smartExtensions[k])

ShouldProcess(c, file) ==
    IF ~hasValidExt(c, file) THEN FALSE ELSE shouldProcessPath(c, file)

\* ------------------------------------------------------------ smart extensions

\* the zero byte
NUL == "NUL"

RECURSIVE ByteLen(_)
ByteLen(s) ==
    IF s = <<>> THEN 0
    ELSE (IF Head(s) = NUL THEN 1 ELSE Len(Head(s))) + ByteLen(Tail(s))

\* the token of a code fence, three backquotes
FENCE == "FENCE"

\* strings.Contains(content, p) for one of the literals p
HasAny(content, pats) == \E p \in pats : Contains(content, p)

\* the literal "# " also occurs at the end of "## " and "### "
HasHashSpace(content) == HasAny(content, {<<"#", SP>>, <<"##", SP>>, <<"###", SP>>})

detectByPatterns(content, filename) ==
    IF \/ HasAny(content, {<<"package", SP>>, <<"func", SP>>, <<"import", SP, "(">>})
       \/ (Contains(content, <<"type", SP>>) /\ Contains(content, <<"struct">>))
    THEN ".go"
    ELSE IF \/ HasAny(content, {<<"resource", SP, "\"">>, <<"data", SP, "\"">>,
                                <<"variable", SP, "\"">>, <<"output", SP, "\"">>,
                                <<"provider", SP, "\"">>, <<"terraform", SP, "{">>})
            \/ (\E i \in 1..(Len(filename) - 1) : filename[i] = ".tf")
            \/ Contains(filename, <<"terraform">>)
    THEN ".tf"
    ELSE IF \/ HasAny(content, {<<"##", SP>>, <<"###", SP>>, <<FENCE>>})
            \/ (Contains(content, <<"[">>) /\ Contains(content, <<"](">>))
            \/ (HasHashSpace(content)
                /\ HasAny(content, {<<"layout:">>, <<"subcategory:">>}))
    THEN ".md"
    ELSE IF Contains(content, <<"---">>) \/ (HasColon(content) /\ Contains(content, <<NL>>))
    THEN ".yml"
    ELSE IF HasAny(filename, {<<"markdown">>, <<".markdown">>, <<"md">>, <<".md">>})
    THEN ".md"
    ELSE ".go"

\* the score of one indicator: its content patterns found in the content plus
\* its filename patterns found in the filename
IndicatorScore(ind, content, filename) ==
    Cardinality({k \in 1..Len(ind.patterns) : Contains(content, ind.patterns[k])})
    + Cardinality({k \in 1..Len(ind.filenames) : Contains(filename, ind.filenames[k])})

\* scores[indicator.Extension] = score: the last indicator of an extension wins
ScoreOf(inds, e, content, filename) ==
    LET last == CHOOSE k \in 1..Len(inds) :
                    /\ inds[k].extension = e
                    /\ \A j \in (k + 1)..Len(inds) : inds[j].extension # e
    IN IndicatorScore(inds[last], content, filename)

\* the extensions detectByScoring can return: the map of scores is ranged
\* over in an unspecified order, and a later entry replaces the best one only
\* with a strictly higher score
detectByScoring(inds, content, filename) ==
    LET exts == {inds[k].extension : k \in 1..Len(inds)}
        best == {e \in exts :
                    /\ ScoreOf(inds, e, content, filename) > 0
                    /\ \A d \in exts : ScoreOf(inds, d, content, filename)
                                          <= ScoreOf(inds, e, content, filename)}
    IN IF best = {} THEN {".go"} ELSE best

\* a faulty DetectSmartExtensionType: a null byte anywhere makes a file binary
DetectSmartExtensionType_AnyNull(c, content, filename) ==
    IF \E i \in 1..Len(content) : content[i] = NUL
    THEN {""}
    ELSE IF Len(c.smartIndicators) > 0
    THEN detectByScoring(c.smartIndicators, content, filename)
    ELSE {detectByPatterns(content, filename)}

\* the values DetectSmartExtensionType can return, "" for a binary file
DetectSmartExtensionType(c, content, filename) ==
    IF \E i \in 1..Len(content) :
          content[i] = NUL /\ ByteLen(SubSeq(content, 1, i - 1)) < 512
    THEN {""}
    ELSE IF Len(c.smartIndicators) > 0
    THEN detectByScoring(c.smartIndicators, content, filename)
    ELSE {detectByPatterns(content, filename)}

\* ------------------------------------------------------------ placement

\* the line at the code's zero-based index i
At(lines, i) == lines[i + 1]

\* lines[i:] of the code, zero-based
From(lines, i) == SubSeq(lines, i + 1, Len(lines))

hasShebang(lines) == Len(lines) > 0 /\ HasPrefix(lines[1], <<"#", "!">>)

hasXMLDeclaration(lines) ==
    Len(lines) > 0 /\ HasPrefix(TrimSpace(lines[1]), <<"<?xml">>)

hasMarkdownHeading(lines) ==
    Len(lines) > 0 /\ HasPrefix(TrimSpace(lines[1]), <<"#", SP>>)

RECURSIVE FindClosingFrontmatter(_, _)
FindClosingFrontmatter(lines, i) ==
    IF i >= Len(lines) THEN 0
    ELSE IF TrimSpace(At(lines, i)) = <<"---">> THEN i + 1
    ELSE FindClosingFrontmatter(lines, i + 1)

\* the end of the frontmatter block of a file whose name ends in a
\* configured frontmatter extension: the block opens with "---" on the line
\* at the current offset (after the shebang and the XML declaration) and ends
\* after the next "---"; 0 when there is none or it is not closed
getFrontmatterEndNew(lines, c, file) ==
    LET s1 == IF hasShebang(lines) THEN 1 ELSE 0
        s == IF s1 < Len(lines) /\ c.xmlDeclaration /\ hasXMLDeclaration(From(lines, s1))
             THEN s1 + 1 ELSE s1
    IN IF /\ \E k \in 1..Len(c.frontmatter) : HasSuffix(file, c.frontmatter[k])
          /\ s < Len(lines) /\ TrimSpace(At(lines, s)) = <<"---">>
       THEN FindClosingFrontmatter(lines, s + 1)
       ELSE 0

\* ------------------------------------------------------------ fixFile

\* filepath.Ext: the last dotted component of the name
FileExt(file) ==
    IF Len(file) > 1 THEN <<file[Len(file)]>> ELSE <<>>

RECURSIVE FirstLongerExt(_, _, _, _)
FirstLongerExt(file, exts, ext, k) ==
    IF k > Len(exts) THEN ext
    ELSE IF HasSuffix(file, exts[k]) /\ ByteLen(exts[k]) > ByteLen(ext) THEN exts[k]
    ELSE FirstLongerExt(file, exts, ext, k + 1)

\* the extension as the string the comment-style switch compares
ExtString(ext) ==
    IF ext = <<>> THEN ""
    ELSE IF Len(ext) = 1 THEN ext[1]
    ELSE IF ext = <<".html", ".markdown">> THEN ".html.markdown"
    ELSE "other"

\* the extension as the tokens a file name ends in
ExtTokens(ext) ==
    IF ext = "" THEN <<>>
    ELSE IF ext = ".html.markdown" THEN <<".html", ".markdown">>
    ELSE <<ext>>

\* lines 100-107: the extension of the file, compound extensions included
ResolveExt(c, file) == FirstLongerExt(file, c.extensions, FileExt(file), 1)

\* lines 109-117: the first smart extension the name ends in, <<>> when none
RECURSIVE FirstSmartExt(_, _, _, _)
FirstSmartExt(file, exts, ext, k) ==
    IF k > Len(exts) THEN <<>>
    ELSE IF HasSuffix(file, exts[k]) /\ ByteLen(exts[k]) >= ByteLen(ext) THEN exts[k]
    ELSE FirstSmartExt(file, exts, ext, k + 1)

isSmartExt(c, file) == FirstSmartExt(file, c.smartExtensions, ResolveExt(c, file), 1) # <<>>

\* lines 145-176: the placement offset
AfterShebang(lines) == IF hasShebang(lines) THEN 1 ELSE 0

AfterXML(c, lines) ==
    LET s == AfterShebang(lines) IN
    IF s < Len(lines) /\ c.xmlDeclaration /\ hasXMLDeclaration(From(lines, s))
    THEN s + 1 ELSE s

AfterFrontmatter(c, lines, frontmatterFile) ==
    LET s == AfterXML(c, lines)
        e == getFrontmatterEndNew(lines, c, frontmatterFile) IN
    IF e > s THEN e ELSE s

isMarkdownFile(file) ==
    HasSuffix(file, <<".md">>) \/ HasSuffix(file, <<".markdown">>)

\* a faulty StartLine: the markdown heading is tested before the frontmatter
StartLine_HeadingFirst(c, lines, file, frontmatterFile) ==
    LET s0 == AfterXML(c, lines)
        s == IF /\ s0 < Len(lines) /\ isMarkdownFile(file) /\ c.markdownHeading
                /\ hasMarkdownHeading(From(lines, s0))
             THEN s0 + 1 ELSE s0
        e == getFrontmatterEndNew(lines, c, frontmatterFile) IN
    IF e > s THEN e ELSE s

StartLine(c, lines, file, frontmatterFile) ==
    LET s == AfterFrontmatter(c, lines, frontmatterFile) IN
    IF /\ s < Len(lines) /\ isMarkdownFile(file) /\ c.markdownHeading
       /\ hasMarkdownHeading(From(lines, s))
    THEN s + 1 ELSE s

Min(a, b) == IF a < b THEN a ELSE b

\* a faulty MaxScan: the limit is not applied
MaxScan_Unbounded(c, lines, startLine) == Len(lines)

\* lines 178-182
MaxScan(c, lines, startLine) ==
    IF c.maxScanLines > 0 THEN Min(startLine + c.maxScanLines, Len(lines))
    ELSE Len(lines)

SameTrimmed(a, b) == TrimSpace(a) = TrimSpace(b)

\* lines 205-228: the scan of the header window, one line at a time
ScanLine(c, ext, ch, lh, cp, line, st) ==
    IF ShouldReplace(c, line) THEN [st EXCEPT !.hasCopyright = TRUE]
    ELSE IF IsOwnCopyrightLine(c, line, ext)
         THEN IF ~SameTrimmed(line, ch) THEN [st EXCEPT !.hasCopyright = TRUE]
              ELSE [st EXCEPT !.hasCorrectCopyright = TRUE]
    ELSE IF IsThirdPartyCopyright(c, line)
         THEN [st EXCEPT !.thirdPartyLines = Append(@, line)]
    ELSE IF SameTrimmed(line, ch) THEN [st EXCEPT !.hasCorrectCopyright = TRUE]
    ELSE IF lh # <<>> /\ SameTrimmed(line, lh) THEN [st EXCEPT !.hasCorrectLicense = TRUE]
    ELSE IF isSPDXHeaderLine(line, cp)
         THEN IF lh = <<>> \/ ~SameTrimmed(line, lh)
              THEN [st EXCEPT !.hasCopyright = TRUE] ELSE st
    ELSE st

RECURSIVE Scan(_, _, _, _, _, _, _, _, _)
Scan(c, ext, ch, lh, cp, lines, i, maxScan, st) ==
    IF i >= maxScan THEN st
    ELSE Scan(c, ext, ch, lh, cp, lines, i + 1, maxScan,
              ScanLine(c, ext, ch, lh, cp, At(lines, i), st))

ScanInit ==
    [hasCopyright |-> FALSE, hasCorrectCopyright |-> FALSE,
     hasCorrectLicense |-> FALSE, thirdPartyLines |-> <<>>]

isBlockCommentStyle(c, ext) == ConfiguredStyle(c, ext) = "/**"

\* lines 236-250
addHeaders(c, ext, ch, lh) ==
    IF isBlockCommentStyle(c, ext)
    THEN <<<<"/**">>, ch>> \o (IF lh # <<>> THEN <<lh>> ELSE <<>>) \o <<<<SP, "*/">>>>
    ELSE <<ch>> \o (IF lh # <<>> THEN <<lh>> ELSE <<>>)

\* lines 385-394
addBlankLineIfNeeded(result, lines, startLine) ==
    IF startLine < Len(lines) /\ TrimSpace(At(lines, startLine)) = <<>>
    THEN result ELSE Append(result, <<>>)

\* a faulty HeaderMaterial: the orders of 'above' and 'below' exchanged
HeaderMaterial_Exchanged(c, ext, ch, lh, tp) ==
    IF c.action = "below" THEN addHeaders(c, ext, ch, lh) \o tp
    ELSE IF c.action = "above" THEN tp \o addHeaders(c, ext, ch, lh)
    ELSE addHeaders(c, ext, ch, lh)

\* lines 252-272
HeaderMaterial(c, ext, ch, lh, tp) ==
    IF c.action = "above" THEN addHeaders(c, ext, ch, lh) \o tp
    ELSE IF c.action = "below" THEN tp \o addHeaders(c, ext, ch, lh)
    ELSE addHeaders(c, ext, ch, lh)

\* lines 292-303: does the block opened at i hold a header line before it closes
RECURSIVE BlockHasHeader(_, _, _, _, _, _, _)
BlockHasHeader(c, ext, cp, lines, j, maxScan, closeMarker) ==
    IF ~(j < maxScan /\ j < Len(lines)) THEN FALSE
    ELSE LET checkLine == At(lines, j)
             checkTrimmed == TrimSpace(checkLine) IN
         IF checkTrimmed = closeMarker \/ HasSuffix(checkTrimmed, closeMarker) THEN FALSE
         ELSE IF \/ ShouldReplace(c, checkLine)
                 \/ IsOwnCopyrightLine(c, checkLine, ext)
                 \/ isSPDXHeaderLine(checkLine, cp)
              THEN TRUE
         ELSE BlockHasHeader(c, ext, cp, lines, j + 1, maxScan, closeMarker)

\* a faulty RemoveOrKeep: replace targets are not removed
RemoveOrKeep_KeepReplaceTargets(c, ext, ch, lh, cp, line, st) ==
    IF SameTrimmed(line, ch) \/ (lh # <<>> /\ SameTrimmed(line, lh))
    THEN [st EXCEPT !.skipNext = TRUE]
    ELSE IF IsOwnCopyrightLine(c, line, ext)
    THEN [st EXCEPT !.fixed = TRUE, !.skipNext = TRUE]
    ELSE IF isSPDXHeaderLine(line, cp)
    THEN [st EXCEPT !.fixed = TRUE, !.skipNext = TRUE]
    ELSE IF IsThirdPartyCopyright(c, line) /\ c.action # "leave"
    THEN [st EXCEPT !.fixed = TRUE, !.skipNext = TRUE]
    ELSE IF st.skipNext /\ TrimSpace(line) = <<>>
    THEN [st EXCEPT !.skipNext = FALSE]
    ELSE [st EXCEPT !.skipNext = FALSE, !.result = Append(@, line)]

\* a faulty RemoveOrKeep: third-party lines are removed only when they are
\* re-emitted, so 'replace' keeps them in the body
RemoveOrKeep_KeepUnderReplace(c, ext, ch, lh, cp, line, st) ==
    IF SameTrimmed(line, ch) \/ (lh # <<>> /\ SameTrimmed(line, lh))
    THEN [st EXCEPT !.skipNext = TRUE]
    ELSE IF IsOwnCopyrightLine(c, line, ext)
    THEN [st EXCEPT !.fixed = TRUE, !.skipNext = TRUE]
    ELSE IF isSPDXHeaderLine(line, cp)
    THEN [st EXCEPT !.fixed = TRUE, !.skipNext = TRUE]
    ELSE IF ShouldReplace(c, line)
    THEN [st EXCEPT !.fixed = TRUE, !.skipNext = TRUE]
    ELSE IF IsThirdPartyCopyright(c, line) /\ c.action \in {"above", "below"}
    THEN [st EXCEPT !.fixed = TRUE, !.skipNext = TRUE]
    ELSE IF st.skipNext /\ TrimSpace(line) = <<>>
    THEN [st EXCEPT !.skipNext = FALSE]
    ELSE [st EXCEPT !.skipNext = FALSE, !.result = Append(@, line)]

\* lines 325-366: one line of the header window outside a removed block
RemoveOrKeep(c, ext, ch, lh, cp, line, st) ==
    IF SameTrimmed(line, ch) \/ (lh # <<>> /\ SameTrimmed(line, lh))
    THEN [st EXCEPT !.skipNext = TRUE]
    ELSE IF IsOwnCopyrightLine(c, line, ext)
    THEN [st EXCEPT !.fixed = TRUE, !.skipNext = TRUE]
    ELSE IF isSPDXHeaderLine(line, cp)
    THEN [st EXCEPT !.fixed = TRUE, !.skipNext = TRUE]
    ELSE IF ShouldReplace(c, line)
    THEN [st EXCEPT !.fixed = TRUE, !.skipNext = TRUE]
    ELSE IF IsThirdPartyCopyright(c, line) /\ c.action # "leave"
    THEN [st EXCEPT !.fixed = TRUE, !.skipNext = TRUE]
    ELSE IF st.skipNext /\ TrimSpace(line) = <<>>
    THEN [st EXCEPT !.skipNext = FALSE]
    ELSE [st EXCEPT !.skipNext = FALSE, !.result = Append(@, line)]

\* lines 278-367: one iteration of the rewrite loop
RewriteLine(c, ext, ch, lh, cp, lines, i, maxScan, st) ==
    LET line == At(lines, i)
        trimmed == TrimSpace(line)
        isOpen == trimmed = <<"<!--">> \/ trimmed = <<"/**">>
        closeMarker == IF trimmed = <<"/**">> THEN <<"*/">> ELSE <<"-->">>
        found == isOpen /\ BlockHasHeader(c, ext, cp, lines, i + 1, maxScan, closeMarker)
        s1 == IF found THEN [st EXCEPT !.inCopyrightBlock = TRUE, !.fixed = TRUE] ELSE st
    IN
    IF ~(i < maxScan)
    THEN [st EXCEPT !.skipNext = FALSE, !.result = Append(@, line)]
    ELSE IF isOpen /\ s1.inCopyrightBlock THEN s1
    ELSE IF s1.inCopyrightBlock
    THEN IF trimmed = <<"-->">> \/ trimmed = <<"*/">> \/ HasSuffix(trimmed, <<"*/">>)
         THEN [s1 EXCEPT !.inCopyrightBlock = FALSE, !.skipNextBlank = TRUE]
         ELSE s1
    ELSE IF s1.skipNextBlank /\ trimmed = <<>>
    THEN [s1 EXCEPT !.skipNextBlank = FALSE]
    ELSE RemoveOrKeep(c, ext, ch, lh, cp, line, [s1 EXCEPT !.skipNextBlank = FALSE])

RECURSIVE Rewrite(_, _, _, _, _, _, _, _, _)
Rewrite(c, ext, ch, lh, cp, lines, i, maxScan, st) ==
    IF i >= Len(lines) THEN st
    ELSE Rewrite(c, ext, ch, lh, cp, lines, i + 1, maxScan,
                 RewriteLine(c, ext, ch, lh, cp, lines, i, maxScan, st))

\* lines 89-383: the outcome of fixFile on a readable file: whether it
\* reports a fix, the content it leaves on disk, and the locals of the run;
\* detected is what DetectSmartExtensionType returned, read for a smart
\* extension only
fixFile(c, file, content, detected) ==
    LET lines == Split(content)
        smart == isSmartExt(c, file)
        ext == IF smart THEN detected ELSE ExtString(ResolveExt(c, file))
        ch == GetCopyrightHeader(c, ext)
        lh == GetLicenseHeader(c, ext)
        frontmatterFile == IF smart THEN <<"dummy">> \o ExtTokens(ext) ELSE file
        startLine == StartLine(c, lines, file, frontmatterFile)
        maxScan == MaxScan(c, lines, startLine)
        cp == CommentPrefix(c, ext)
        sc == Scan(c, ext, ch, lh, cp, lines, startLine, maxScan, ScanInit)
        tp == sc.thirdPartyLines
        head == addBlankLineIfNeeded(
                    SubSeq(lines, 1, startLine) \o HeaderMaterial(c, ext, ch, lh, tp),
                    lines, startLine)
        rw == Rewrite(c, ext, ch, lh, cp, lines, startLine, maxScan,
                      [result |-> head, skipNext |-> FALSE, inCopyrightBlock |-> FALSE,
                       skipNextBlank |-> FALSE, fixed |-> FALSE])
        fixed == rw.fixed \/ (~sc.hasCopyright /\ Len(tp) = 0) \/ Len(tp) > 0
        skip == [fixed |-> FALSE, content |-> content, scanned |-> FALSE,
                 startLine |-> 0, maxScan |-> 0, thirdPartyLines |-> <<>>]
    IN
    IF IsGenerated(c, lines) THEN skip
    ELSE IF smart /\ detected = "" THEN skip
    ELSE IF sc.hasCorrectCopyright /\ (lh = <<>> \/ sc.hasCorrectLicense)
    THEN [skip EXCEPT !.scanned = TRUE, !.startLine = startLine, !.maxScan = maxScan,
                      !.thirdPartyLines = tp]
    ELSE [fixed |-> fixed,
          content |-> IF fixed THEN Join(rw.result) ELSE content,
          scanned |-> TRUE, startLine |-> startLine, maxScan |-> maxScan,
          thirdPartyLines |-> tp]

\* ------------------------------------------------------------ ProcessContent

\* lines 431-436
RECURSIVE ScanThirdParty(_, _, _, _)
ScanThirdParty(c, lines, i, maxScan) ==
    IF i >= maxScan THEN <<>>
    ELSE (IF IsThirdPartyCopyright(c, At(lines, i)) THEN <<At(lines, i)>> ELSE <<>>)
         \o ScanThirdParty(c, lines, i + 1, maxScan)

PlainHeaders(ch, lh) == <<ch>> \o (IF lh # <<>> THEN <<lh>> ELSE <<>>)

\* a faulty ContentHeaderMaterial: 'below' emits the header first
ContentHeaderMaterial_HeaderFirst(c, ch, lh, tp) ==
    IF c.action \in {"above", "below"} THEN PlainHeaders(ch, lh) \o tp \o <<<<>>>>
    ELSE PlainHeaders(ch, lh) \o <<<<>>>>

\* lines 438-466
ContentHeaderMaterial(c, ch, lh, tp) ==
    IF c.action = "above" THEN PlainHeaders(ch, lh) \o tp \o <<<<>>>>
    ELSE IF c.action = "below" THEN tp \o PlainHeaders(ch, lh) \o <<<<>>>>
    ELSE PlainHeaders(ch, lh) \o <<<<>>>>

\* lines 488-530
RECURSIVE ContentRewrite(_, _, _, _, _, _, _, _, _)
ContentRewrite(c, ext, ch, lh, cp, lines, i, maxScan, st) ==
    IF i >= Len(lines) THEN st
    ELSE ContentRewrite(c, ext, ch, lh, cp, lines, i + 1, maxScan,
            IF i < maxScan
            THEN [RemoveOrKeep(c, ext, ch, lh, cp, At(lines, i), st) EXCEPT !.fixed = FALSE]
            ELSE [st EXCEPT !.skipNext = FALSE, !.result = Append(@, At(lines, i))])

\* lines 398-540
ProcessContent(c, content, ext) ==
    LET lines == Split(content)
        ch == GetCopyrightHeader(c, ext)
        lh == GetLicenseHeader(c, ext)
        startLine == AfterShebang(lines)
        maxScan == MaxScan(c, lines, startLine)
        tp == ScanThirdParty(c, lines, startLine, maxScan)
        cp == CommentPrefix(c, ext)
        rw == ContentRewrite(c, ext, ch, lh, cp, lines, startLine, maxScan,
                [result |-> SubSeq(lines, 1, startLine) \o ContentHeaderMaterial(c, ch, lh, tp),
                 skipNext |-> FALSE, fixed |-> FALSE])
        output == Join(rw.result)
    IN
    IF IsGenerated(c, lines) THEN content
    ELSE IF HasSuffix(content, <<NL>>) /\ ~HasSuffix(output, <<NL>>)
    THEN output \o <<NL>>
    ELSE output

\* ------------------------------------------------------------ checkFile

\* header[2:]: the header without its first two bytes ("<!--" loses "<!")
DropTwoBytes(header) ==
    IF ByteLen(<<header[1]>>) = 2 THEN Tail(header)
    ELSE IF header[1] = "<!--" THEN <<"--">> \o Tail(header)
    ELSE IF ByteLen(<<header[1]>>) = 1 /\ Len(header) > 1 /\ ByteLen(<<header[2]>>) = 1
    THEN Tail(Tail(header))
    ELSE Tail(header)

\* strings.Contains(line, text) for a text that may begin inside the token
\* "<!--" of the line
ContainsText(line, text) ==
    \/ Contains(line, text)
    \/ /\ text # <<>> /\ text[1] = "--"
       /\ Contains(line, <<"<!--">> \o Tail(text))

\* getFrontmatterEnd of the checker: the first configured below_frontmatter
\* extension the name ends in decides; the block opens on line 0
RECURSIVE FirstBelowExt(_, _, _)
FirstBelowExt(file, exts, k) ==
    IF k > Len(exts) THEN 0
    ELSE IF HasSuffix(file, exts[k]) THEN k
    ELSE FirstBelowExt(file, exts, k + 1)

getFrontmatterEnd(lines, c, file) ==
    IF /\ FirstBelowExt(file, c.belowFrontmatter, 1) # 0
       /\ Len(lines) > 0 /\ TrimSpace(lines[1]) = <<"---">>
    THEN FindClosingFrontmatter(lines, 1)
    ELSE 0

\* the scan loop of checkFile from line i: "top" when the copyright text is
\* found off the start line under require_at_top, else what was found
\* a faulty CheckScan: a header below the offset line is accepted
RECURSIVE CheckScan_Anywhere(_, _, _, _, _, _, _, _)
CheckScan_Anywhere(c, lines, startLine, maxScan, ct, lt, i, found) ==
    IF i >= maxScan THEN found
    ELSE CheckScan_Anywhere(c, lines, startLine, maxScan, ct, lt, i + 1,
             [found EXCEPT !.copyright = @ \/ ContainsText(At(lines, i), ct),
                           !.license = @ \/ (lt # <<>> /\ ContainsText(At(lines, i), lt))])

RECURSIVE CheckScan(_, _, _, _, _, _, _, _)
CheckScan(c, lines, startLine, maxScan, ct, lt, i, found) ==
    IF i >= maxScan THEN found
    ELSE LET hasC == ContainsText(At(lines, i), ct)
             hasL == lt # <<>> /\ ContainsText(At(lines, i), lt)
         IN IF hasC /\ c.requireAtTop /\ i # startLine
            THEN [found EXCEPT !.top = TRUE]
            ELSE CheckScan(c, lines, startLine, maxScan, ct, lt, i + 1,
                           [found EXCEPT !.copyright = @ \/ hasC, !.license = @ \/ hasL])

\* Checker.checkFile on a readable file: the problem of the issue, "" for nil
checkFile(c, file, content) ==
    LET lines == Split(content)
        ext == ExtString(FileExt(file))
        expectedHeader == GetCopyrightHeader(c, ext)
        expectedLicense == GetLicenseHeader(c, ext)
        s0 == IF hasShebang(lines) THEN 1 ELSE 0
        frontmatterEnd == getFrontmatterEnd(lines, c, file)
        startLine == IF frontmatterEnd > s0 THEN frontmatterEnd ELSE s0
        maxScan == IF c.maxScanLines > 0
                   THEN Min(startLine + c.maxScanLines, Len(lines)) ELSE Len(lines)
        ct == TrimSpace(DropTwoBytes(expectedHeader))
        lt == IF expectedLicense = <<>> THEN <<>> ELSE TrimSpace(DropTwoBytes(expectedLicense))
        found == CheckScan(c, lines, startLine, maxScan, ct, lt, startLine,
                           [copyright |-> FALSE, license |-> FALSE, top |-> FALSE])
    IN
    IF Len(lines) = 0 THEN "empty file"
    ELSE IF IsGenerated(c, lines) THEN ""
    ELSE IF startLine >= Len(lines) THEN "missing copyright header"
    ELSE IF found.top THEN "copyright not at top of file"
    ELSE IF ~found.copyright THEN "missing or incorrect copyright header"
    ELSE IF expectedLicense # <<>> /\ ~found.license THEN "missing license header"
    ELSE ""

\* ------------------------------------------------------------ inputs

\* the most lines a file starts with
MaxLines == 3

\* the number of fixFile calls on one file
MaxRuns == 2

GoTest == <<"main", ".go">>

FormatStartCurrent ==
    <<"Copyright", SP, "{{.Holder}}", SP, "{{.StartYear}}", ",", SP, "{{.CurrentYear}}">>

FormatYearHolder == <<"Copyright", SP, "{{.CurrentYear}}", SP, "{{.Holder}}">>

LicenseFormat == <<"SPDX-License-Identifier:", SP, "{{.Identifier}}">>

\* the configurations of the repository's tests and README, the window scaled
\* down to the size of the model's files
BaseConfig ==
    [holder |-> "IBM", startYear |-> 2014, currentYear |-> 2025,
     format |-> FormatStartCurrent,
     licenseEnabled |-> TRUE, identifier |-> "MPL-2.0", licenseFormat |-> LicenseFormat,
     extensions |-> <<>>, smartExtensions |-> <<>>, smartIndicators |-> <<>>,
     includePaths |-> <<>>, excludePaths |-> <<>>,
     commentStyles |-> [k \in {"go"} |-> "//"],
     xmlDeclaration |-> FALSE, markdownHeading |-> FALSE, frontmatter |-> <<>>,
     belowFrontmatter |-> <<>>,
     skipGenerated |-> FALSE, generatedPatterns |-> <<>>,
     replacePatterns |-> <<<<"Copyright", ANY, "HashiCorp">>>>,
     maxScanLines |-> 0, requireAtTop |-> TRUE,
     action |-> "above", thirdPartyPatterns |-> <<<<"Copyright", ANY, "Oracle">>>>]

Actions == {"leave", "above", "below", "replace", ""}

ScanLimits == {0, MaxLines - 1}

Configs ==
    {[BaseConfig EXCEPT !.action = a, !.licenseEnabled = l, !.maxScanLines = m,
                        !.format = f[1], !.thirdPartyPatterns = f[2]] :
        a \in Actions, l \in BOOLEAN, m \in ScanLimits,
        f \in {<<FormatStartCurrent, <<<<"Copyright", ANY, "Oracle">>>>>>,
               <<FormatYearHolder, <<<<"Copyright", ANY>>>>>>}}

\* the lines a Go file is made of: the canonical header and license lines, a
\* stale own header, a replace target, a third-party notice, a blank line,
\* code, and a shebang line (plain text anywhere but on the first line)
PlainLines(c) ==
    {GetCopyrightHeader(c, ".go"),
     <<"//", SP, "SPDX-License-Identifier:", SP, "MPL-2.0">>,
     <<"//", SP, "Copyright", SP, "IBM", SP, "2014", ",", SP, "2024">>,
     <<"//", SP, "Copyright", SP, "HashiCorp">>,
     <<"//", "Copyright", SP, "Oracle">>,
     <<>>,
     <<"package", SP, "main">>,
     <<"#", "!", "/bin/sh">>}

\* files with a block comment around header lines
BlockConfigs ==
    {[BaseConfig EXCEPT !.action = a, !.licenseEnabled = FALSE, !.maxScanLines = m] :
        a \in {"leave", "above"}, m \in ScanLimits}

BlockLines ==
    {<<"/**">>,
     <<SP, "*/">>,
     <<SP, "*", SP, "Copyright", SP, "HashiCorp">>,
     <<SP, "*", SP, "Copyright", SP, "Oracle">>,
     <<SP, "*", SP, "notes">>,
     <<"package", SP, "main">>}

\* generated files, under a configuration that skips them
GeneratedConfigs ==
    {[BaseConfig EXCEPT !.skipGenerated = TRUE,
                        !.generatedPatterns = <<<<"Code", SP, "generated">>>>,
                        !.licenseEnabled = FALSE, !.action = a] : a \in {"above", "below"}}

GeneratedLines ==
    {<<"//", SP, "Code", SP, "generated">>,
     <<"//", "Copyright", SP, "Oracle">>,
     <<"package", SP, "main">>}

\* the most lines a file of the placement family starts with
MaxPrefixLines == 5

\* files that open with lines the header must follow
PlacementConfigs ==
    {[BaseConfig EXCEPT !.action = "leave", !.licenseEnabled = FALSE,
                        !.xmlDeclaration = x, !.markdownHeading = h, !.frontmatter = f] :
        x \in BOOLEAN, h \in BOOLEAN, f \in {<<>>, <<<<".md">>>>}}

PlacementNames == {<<"doc", ".md">>, <<"main", ".go">>}

PlacementLines ==
    {<<"#", "!", "/bin/sh">>,
     <<"<?xml", SP, "version", "?>">>,
     <<"---">>,
     <<"#", SP, "Title">>,
     <<"text">>}

PlacementFiles == UNION {[1..n -> PlacementLines] : n \in 1..MaxPrefixLines}

\* README: the formats of the configuration examples
FormatStartDashCurrent ==
    <<"Copyright", SP, "{{.Holder}}", SP, "{{.StartYear}}", "-", "{{.CurrentYear}}">>

PreviousYear == 2024

\* configurations whose current_year was raised since the files were written
UpdateConfigs ==
    {[BaseConfig EXCEPT !.action = a, !.licenseEnabled = l, !.maxScanLines = m, !.format = f] :
        a \in {"leave", "replace"}, l \in BOOLEAN, m \in ScanLimits,
        f \in {FormatStartCurrent, FormatStartDashCurrent, FormatYearHolder}}

\* the copyright line the configuration rendered under the earlier year
PreviousHeader(c) == GetCopyrightHeader([c EXCEPT !.currentYear = PreviousYear], ".go")

UpdateLines(c) ==
    {PreviousHeader(c),
     GetCopyrightHeader(c, ".go"),
     <<"//", SP, "SPDX-License-Identifier:", SP, "MPL-2.0">>,
     <<>>,
     <<"package", SP, "main">>}

\* files whose first lines mention a header without being one
MentionConfigs ==
    {[BaseConfig EXCEPT !.action = "leave", !.licenseEnabled = l, !.maxScanLines = m] :
        l \in BOOLEAN, m \in ScanLimits}

MentionNames == {GoTest, <<"config", ".yml">>}

\* README, Precision Detection: a comment that mentions the license
\* identifier after other words, a comment that mentions the copyright after
\* other words, and a configuration value
MentionLines(c, ext) ==
    {<<CommentPrefix(c, ext), SP, "see", SP, "SPDX-License-Identifier:", SP, "MPL-2.0", SP, "below">>,
     <<CommentPrefix(c, ext), SP, "notes", SP, "on", SP, "Copyright", SP, c.holder>>,
     <<"format:", SP, "\"", "SPDX-License-Identifier:", SP, "{{.Identifier}}", "\"">>}

MentionFileLines(c, ext) ==
    MentionLines(c, ext) \cup {GetCopyrightHeader(c, ext), <<"text">>}

\* template files, whose type is detected from their content
MaxCalls == 2

TfIndicator ==
    [extension |-> ".tf", patterns |-> <<<<"resource", SP, "\"">>>>, filenames |-> <<<<".tf">>>>]

MdIndicator ==
    [extension |-> ".md", patterns |-> <<<<"#", SP>>>>, filenames |-> <<>>]

SmartConfigs ==
    {[BaseConfig EXCEPT !.smartExtensions = <<<<".gtpl">>>>, !.smartIndicators = i,
                        !.licenseEnabled = FALSE, !.action = "leave"] :
        i \in {<<>>, <<TfIndicator, MdIndicator>>}}

SmartNames == {<<"service", ".gtpl">>, <<"main", ".tf", ".gtpl">>}

\* 256 bytes without a null byte
Pad256 == "xxxxxxxxxxxxxxxxxxxxxxxxxxxxxxxxxxxxxxxxxxxxxxxxxxxxxxxxxxxxxxxxxxxxxxxxxxxxxxxxxxxxxxxxxxxxxxxxxxxxxxxxxxxxxxxxxxxxxxxxxxxxxxxxxxxxxxxxxxxxxxxxxxxxxxxxxxxxxxxxxxxxxxxxxxxxxxxxxxxxxxxxxxxxxxxxxxxxxxxxxxxxxxxxxxxxxxxxxxxxxxxxxxxxxxxxxxxxxxxxxxxxxxxxxxxxxxxx"

SmartLines ==
    {<<NUL>>,
     <<Pad256>>,
     <<"package", SP, "main">>,
     <<"#", SP, "Title">>,
     <<"resource", SP, "\"", "aws_s3_bucket", "\"">>}

\* markdown and other files, by name or by content, with the heading exception on or off
HeadingConfigs ==
    {[BaseConfig EXCEPT !.extensions = <<<<".go">>, <<".md">>>>,
                        !.smartExtensions = <<<<".gtpl">>>>,
                        !.smartIndicators = <<TfIndicator, MdIndicator>>,
                        !.licenseEnabled = FALSE, !.action = "leave",
                        !.markdownHeading = h] : h \in BOOLEAN}

HeadingNames ==
    {<<"README", ".md">>, <<"main", ".go">>,
     <<"README", ".md", ".gtpl">>, <<"main", ".tf", ".gtpl">>}

HeadingLines ==
    {<<"#", SP, "Title">>,
     <<"#", "#", SP, "Subtitle">>,
     <<SP, "#", SP, "Title">>,
     <<"package", SP, "main">>,
     <<"resource", SP, "\"", "aws_s3_bucket", "\"">>}

\* files with blank lines around header lines, windows of zero, one and two lines
SeparatorConfigs ==
    {[BaseConfig EXCEPT !.action = a, !.licenseEnabled = FALSE, !.maxScanLines = m] :
        a \in {"leave", "above", "replace"}, m \in 0..(MaxLines - 1)}

SeparatorLines(c) ==
    {GetCopyrightHeader(c, ".go"),
     <<"//", SP, "Copyright", SP, "HashiCorp">>,
     <<"//", "Copyright", SP, "Oracle">>,
     <<>>,
     <<"package", SP, "main">>}

\* README, Path Filtering: the files of a repository and the filters
PathFiles ==
    {<<"main", ".go">>,
     <<"cmd", SLASH, "main", ".go">>,
     <<"cmd", SLASH, "tool", "_test", ".go">>,
     <<"cmd", SLASH, "notes", ".txt">>,
     <<"internal", SLASH, "service", SLASH, "s3", SLASH, "bucket", ".go">>,
     <<"internal", SLASH, "service", SLASH, "ec2", SLASH, "vpc", "_test", ".go">>,
     <<"internal", SLASH, "service", SLASH, "ec2", SLASH, "vpc", ".gtpl">>}

IncludeFilters ==
    {<<>>,
     <<<<"cmd", SLASH, DSTAR>>>>,
     <<<<"internal", SLASH, "service", SLASH, STAR>>>>,
     <<<<"internal">>, <<"cmd", SLASH, STAR, ".go">>>>}

ExcludeFilters ==
    {<<>>,
     <<<<DSTAR, SLASH, STAR, "_test", ".go">>>>,
     <<<<"internal", SLASH, "service", SLASH, "s3">>>>,
     <<<<"cmd", SLASH, DSTAR>>, <<"internal", SLASH, "service", SLASH, "ec2", SLASH, STAR>>>>}

PathConfigs ==
    {[BaseConfig EXCEPT !.extensions = <<<<".go">>>>, !.smartExtensions = <<<<".gtpl">>>>,
                        !.includePaths = i, !.excludePaths = e] :
        i \in IncludeFilters, e \in ExcludeFilters}

\* configurations in which a pattern may be malformed
RegexpLists(good) == {<<good>>, <<<<"Copyright", SP, "(">>>>, <<good, <<"Copyright", SP, "(">>>>}

GlobLists == {<<<<"cmd", SLASH, "[">>>>, <<<<"cmd", SLASH, "[">>, <<"cmd", SLASH, DSTAR>>>>}

PatternConfigs ==
    {[BaseConfig EXCEPT !.skipGenerated = TRUE, !.generatedPatterns = g,
                        !.replacePatterns = r, !.thirdPartyPatterns = t,
                        !.extensions = <<<<".go">>>>, !.excludePaths = x] :
        g \in RegexpLists(<<"Code", SP, "generated">>),
        r \in RegexpLists(<<"Copyright", ANY, "HashiCorp">>),
        t \in RegexpLists(<<"Copyright", ANY, "Oracle">>),
        x \in GlobLists}

PatternLines ==
    {<<"//", SP, "Code", SP, "generated">>,
     <<"//", SP, "Copyright", SP, "HashiCorp">>,
     <<"//", "Copyright", SP, "Oracle">>,
     <<"package", SP, "main">>}

\* files of every comment style under configurations with and without
\* configured comment styles
StyleMaps ==
    {[k \in {"go"} |-> "//"],
     [k \in {"js", "go"} |-> "/**"],
     [k \in {"yml", "txt"} |-> "<!--"],
     [k \in {"yaml", "md"} |-> "#"]}

FormatWithColon == <<"Copyright", ":", SP, "{{.Holder}}", SP, "{{.CurrentYear}}">>

LicenseFormatPlain == <<"Licensed", SP, "under", SP, "{{.Identifier}}">>

StyleConfigs ==
    {[BaseConfig EXCEPT !.commentStyles = m, !.format = f, !.licenseEnabled = l,
                        !.licenseFormat = lf,
                        !.extensions = <<<<".html", ".markdown">>>>] :
        m \in StyleMaps, f \in {FormatStartCurrent, FormatWithColon},
        l \in BOOLEAN, lf \in {LicenseFormat, LicenseFormatPlain}}

StyleNames ==
    {<<"main", e>> : e \in {".go", ".sh", ".py", ".hcl", ".tf", ".yml", ".yaml", ".md", ".js", ".txt"}}
    \cup {<<"index", ".html", ".markdown">>}

\* files with a generated marker on some line, skip_generated on or off
MarkerConfigs ==
    {[BaseConfig EXCEPT !.skipGenerated = g,
                        !.generatedPatterns = <<<<"Code", SP, "generated">>>>,
                        !.licenseEnabled = FALSE, !.action = a] :
        g \in BOOLEAN, a \in {"above", "leave"}}

MarkerLines ==
    {<<"//", SP, "Code", SP, "generated">>,
     <<"//", SP, "Copyright", SP, "HashiCorp">>,
     <<>>,
     <<"package", SP, "main">>}

\* files that are fixed and checked, require_at_top on or off
CheckConfigs ==
    {[BaseConfig EXCEPT !.action = a, !.licenseEnabled = l, !.maxScanLines = m,
                        !.requireAtTop = t] :
        a \in {"leave", "above", "below"}, l \in BOOLEAN, m \in ScanLimits, t \in BOOLEAN}

CheckLines(c) ==
    {GetCopyrightHeader(c, ".go"),
     <<"//", SP, "SPDX-License-Identifier:", SP, "MPL-2.0">>,
     <<"//", "Copyright", SP, "Oracle">>,
     <<>>,
     <<"package", SP, "main">>,
     <<"#", "!", "/bin/sh">>}

\* files that open with a block comment: one or two inner lines, a closing
\* line with or without text before the marker, and what follows the block
CommentConfigs ==
    {[BaseConfig EXCEPT !.action = "leave", !.licenseEnabled = FALSE, !.maxScanLines = m] :
        m \in {0, MaxPrefixLines}}

CommentStyles ==
    {[name |-> GoTest, open |-> <<"/**">>,
      inner |-> {<<SP, "*", SP, "Copyright", SP, "HashiCorp">>, <<SP, "*", SP, "notes">>},
      close |-> {<<SP, "*/">>, <<SP, "*", SP, "notes", SP, "*/">>}],
     [name |-> <<"doc", ".md">>, open |-> <<"<!--">>,
      inner |-> {<<"Copyright", SP, "HashiCorp">>, <<"notes">>},
      close |-> {<<"-->">>, <<"notes", SP, "-->">>}]}

CommentRests ==
    {<<>>, <<<<"package", SP, "main">>>>, <<<<>>, <<"package", SP, "main">>>>}

CommentFilesOf(st) ==
    {[name |-> st.name, lines |-> <<st.open>> \o inner \o <<close>> \o rest] :
        inner \in UNION {[1..n -> st.inner] : n \in 1..2},
        close \in st.close, rest \in CommentRests}

CommentFiles == UNION {CommentFilesOf(st) : st \in CommentStyles}

FilesOf(ls) == UNION {[1..n -> ls] : n \in 1..MaxLines}

\* ------------------------------------------------------------ behaviour

NoRun == [scanned |-> FALSE, startLine |-> 0, maxScan |-> 0, thirdPartyLines |-> <<>>]

InitFile ==
    \/ /\ cfg \in Configs
       /\ \E ls \in FilesOf(PlainLines(cfg)) : orig = Join(ls)
    \/ /\ cfg \in BlockConfigs
       /\ \E ls \in FilesOf(BlockLines) : orig = Join(ls)
    \/ /\ cfg \in GeneratedConfigs
       /\ \E ls \in FilesOf(GeneratedLines) : orig = Join(ls)

Init ==
    /\ InitFile
    /\ name = GoTest
    /\ disk = orig
    /\ before = orig
    /\ ret = FALSE
    /\ runs = 0
    /\ loc = NoRun
    /\ out1 = <<>>
    /\ out2 = <<>>
    /\ pcRuns = 0
    /\ Fixed = 0
    /\ probe = <<>>

\* Fixer.fixFile on the file: it reads the file, and writes it when fixed
FixFile ==
    /\ runs < MaxRuns
    /\ \E d \in (IF isSmartExt(cfg, name)
                THEN DetectSmartExtensionType(cfg, disk, name) ELSE {""}) :
       \E r \in {fixFile(cfg, name, disk, d)} :
       /\ before' = disk
       /\ disk' = r.content
       /\ ret' = r.fixed
       /\ loc' = [scanned |-> r.scanned, startLine |-> r.startLine,
                  maxScan |-> r.maxScan, thirdPartyLines |-> r.thirdPartyLines]
       /\ Fixed' = IF r.fixed THEN Fixed + 1 ELSE Fixed
    /\ runs' = runs + 1
    /\ UNCHANGED <<cfg, name, orig, out1, out2, pcRuns, probe>>

Next == FixFile

\* Checker.checkFile on the file
CheckFile ==
    /\ Len(probe) < MaxCalls
    /\ probe' = Append(probe, [runs |-> runs, content |-> disk,
                               issue |-> checkFile(cfg, name, disk)])
    /\ UNCHANGED <<cfg, name, orig, disk, before, ret, runs, loc, out1, out2, pcRuns, Fixed>>

\* a file that is fixed and checked
InitCheck ==
    /\ cfg \in CheckConfigs
    /\ name = GoTest
    /\ \E ls \in FilesOf(CheckLines(cfg)) : orig = Join(ls)
    /\ disk = orig
    /\ before = orig
    /\ ret = FALSE
    /\ runs = 0
    /\ loc = NoRun
    /\ out1 = <<>>
    /\ out2 = <<>>
    /\ pcRuns = 0
    /\ Fixed = 0
    /\ probe = <<>>

NextCheck == FixFile \/ CheckFile

SpecCheck == InitCheck /\ [][NextCheck]_vars

\* Fixer.fixFile on a file that os.ReadFile or os.WriteFile may refuse:
\* a read error returns false, a write error is dropped and true is returned
FixFileIO ==
    /\ runs < MaxRuns
    /\ \E readable \in BOOLEAN, writable \in BOOLEAN :
       \E r \in {fixFile(cfg, name, disk, "")} :
       /\ before' = disk
       /\ disk' = IF readable /\ r.fixed /\ writable THEN r.content ELSE disk
       /\ ret' = (readable /\ r.fixed)
       /\ loc' = IF readable
                 THEN [scanned |-> r.scanned, startLine |-> r.startLine,
                       maxScan |-> r.maxScan, thirdPartyLines |-> r.thirdPartyLines]
                 ELSE NoRun
       /\ Fixed' = IF readable /\ r.fixed THEN Fixed + 1 ELSE Fixed
       /\ probe' = Append(probe, [readable |-> readable,
                                  writable |-> writable,
                                  written |-> readable /\ r.fixed /\ writable])
    /\ runs' = runs + 1
    /\ UNCHANGED <<cfg, name, orig, out1, out2, pcRuns>>

NextIO == FixFileIO

SpecIO == InitCheck /\ [][NextIO]_vars

\* a file of the placement family under the run's configuration
InitPlacement ==
    /\ cfg \in PlacementConfigs
    /\ name \in PlacementNames
    /\ \E ls \in PlacementFiles : orig = Join(ls)
    /\ disk = orig
    /\ before = orig
    /\ ret = FALSE
    /\ runs = 0
    /\ loc = NoRun
    /\ out1 = <<>>
    /\ out2 = <<>>
    /\ pcRuns = 0
    /\ Fixed = 0
    /\ probe = <<>>

SpecPlacement == InitPlacement /\ [][Next]_vars

Spec == Init /\ [][Next]_vars

\* a file written under the earlier current_year
InitUpdate ==
    /\ cfg \in UpdateConfigs
    /\ name = GoTest
    /\ \E ls \in FilesOf(UpdateLines(cfg)) : orig = Join(ls)
    /\ disk = orig
    /\ before = orig
    /\ ret = FALSE
    /\ runs = 0
    /\ loc = NoRun
    /\ out1 = <<>>
    /\ out2 = <<>>
    /\ pcRuns = 0
    /\ Fixed = 0
    /\ probe = <<>>

SpecUpdate == InitUpdate /\ [][Next]_vars

\* a file with lines that mention a header
InitMention ==
    /\ cfg \in MentionConfigs
    /\ name \in MentionNames
    /\ \E ls \in FilesOf(MentionFileLines(cfg, ExtString(ResolveExt(cfg, name)))) : orig = Join(ls)
    /\ disk = orig
    /\ before = orig
    /\ ret = FALSE
    /\ runs = 0
    /\ loc = NoRun
    /\ out1 = <<>>
    /\ out2 = <<>>
    /\ pcRuns = 0
    /\ Fixed = 0
    /\ probe = <<>>

SpecMention == InitMention /\ [][Next]_vars

\* a template file
InitSmart ==
    /\ cfg \in SmartConfigs
    /\ name \in SmartNames
    /\ \E ls \in FilesOf(SmartLines) : orig = Join(ls)
    /\ disk = orig
    /\ before = orig
    /\ ret = FALSE
    /\ runs = 0
    /\ loc = NoRun
    /\ out1 = <<>>
    /\ out2 = <<>>
    /\ pcRuns = 0
    /\ Fixed = 0
    /\ probe = <<>>

\* Config.DetectSmartExtensionType on the file's content
Detect ==
    /\ Len(probe) < MaxCalls
    /\ \E d \in DetectSmartExtensionType(cfg, disk, name) :
          probe' = Append(probe, [content |-> disk, filename |-> name, result |-> d])
    /\ UNCHANGED <<cfg, name, orig, disk, before, ret, runs, loc, out1, out2, pcRuns, Fixed>>

NextSmart == FixFile \/ Detect

SpecSmart == InitSmart /\ [][NextSmart]_vars

\* a markdown or other file under a configuration with the heading exception
InitHeading ==
    /\ cfg \in HeadingConfigs
    /\ name \in HeadingNames
    /\ \E ls \in FilesOf(HeadingLines) : orig = Join(ls)
    /\ disk = orig
    /\ before = orig
    /\ ret = FALSE
    /\ runs = 0
    /\ loc = NoRun
    /\ out1 = <<>>
    /\ out2 = <<>>
    /\ pcRuns = 0
    /\ Fixed = 0
    /\ probe = <<>>

SpecHeading == InitHeading /\ [][NextSmart]_vars

\* a file with blank lines around header lines
InitSeparator ==
    /\ cfg \in SeparatorConfigs
    /\ name = GoTest
    /\ \E ls \in FilesOf(SeparatorLines(cfg)) : orig = Join(ls)
    /\ disk = orig
    /\ before = orig
    /\ ret = FALSE
    /\ runs = 0
    /\ loc = NoRun
    /\ out1 = <<>>
    /\ out2 = <<>>
    /\ pcRuns = 0
    /\ Fixed = 0
    /\ probe = <<>>

SpecSeparator == InitSeparator /\ [][Next]_vars

\* a file that opens with a block comment
InitComment ==
    /\ cfg \in CommentConfigs
    /\ \E f \in CommentFiles : name = f.name /\ orig = Join(f.lines)
    /\ disk = orig
    /\ before = orig
    /\ ret = FALSE
    /\ runs = 0
    /\ loc = NoRun
    /\ out1 = <<>>
    /\ out2 = <<>>
    /\ pcRuns = 0
    /\ Fixed = 0
    /\ probe = <<>>

SpecComment == InitComment /\ [][Next]_vars

\* a tracked file of the repository under a configuration with path filters
InitPaths ==
    /\ cfg \in PathConfigs
    /\ name \in PathFiles
    /\ orig = <<"package", SP, "main">>
    /\ disk = orig
    /\ before = orig
    /\ ret = FALSE
    /\ runs = 0
    /\ loc = NoRun
    /\ out1 = <<>>
    /\ out2 = <<>>
    /\ pcRuns = 0
    /\ Fixed = 0
    /\ probe = <<>>

\* Fixer.Fix: the filter, a call of Config.ShouldProcess on the file
Filter ==
    /\ Len(probe) < MaxCalls
    /\ probe' = Append(probe, [file |-> name, result |-> ShouldProcess(cfg, name)])
    /\ UNCHANGED <<cfg, name, orig, disk, before, ret, runs, loc, out1, out2, pcRuns, Fixed>>

NextPaths == Filter

SpecPaths == InitPaths /\ [][NextPaths]_vars

\* a file of some extension under a configuration of comment styles
InitStyles ==
    /\ cfg \in StyleConfigs
    /\ name \in StyleNames
    /\ orig = <<"text">>
    /\ disk = orig
    /\ before = orig
    /\ ret = FALSE
    /\ runs = 0
    /\ loc = NoRun
    /\ out1 = <<>>
    /\ out2 = <<>>
    /\ pcRuns = 0
    /\ Fixed = 0
    /\ probe = <<>>

\* fixFile, lines 129-137: the two headers for the file's extension
GetHeaders ==
    /\ Len(probe) < MaxCalls
    /\ \E ext \in {ExtString(ResolveExt(cfg, name))} :
          probe' = Append(probe, [ext |-> ext,
                                  copyrightHeader |-> GetCopyrightHeader(cfg, ext),
                                  licenseHeader |-> GetLicenseHeader(cfg, ext)])
    /\ UNCHANGED <<cfg, name, orig, disk, before, ret, runs, loc, out1, out2, pcRuns, Fixed>>

NextStyles == GetHeaders

SpecStyles == InitStyles /\ [][NextStyles]_vars

\* a file under a configuration with malformed patterns
InitPatterns ==
    /\ cfg \in PatternConfigs
    /\ name = <<"cmd", SLASH, "main", ".go">>
    /\ \E ls \in FilesOf(PatternLines) : orig = Join(ls)
    /\ disk = orig
    /\ before = orig
    /\ ret = FALSE
    /\ runs = 0
    /\ loc = NoRun
    /\ out1 = <<>>
    /\ out2 = <<>>
    /\ pcRuns = 0
    /\ Fixed = 0
    /\ probe = <<>>

\* the run goes on until a call panics
Running ==
    /\ Len(probe) < MaxCalls
    /\ \A k \in 1..Len(probe) : probe[k].result # "panic"

Called(op, arg, result) ==
    /\ probe' = Append(probe, [op |-> op, arg |-> arg, result |-> result])
    /\ UNCHANGED <<cfg, name, orig, disk, before, ret, runs, loc, out1, out2, pcRuns, Fixed>>

EvalMatchesPath ==
    /\ Running
    /\ \E k \in 1..Len(cfg.excludePaths) :
          Called("matchesPath", <<cfg.excludePaths[k], name>>,
                 IF matchesPath(cfg.excludePaths[k], name) THEN "true" ELSE "false")

EvalIsGenerated ==
    /\ Running
    /\ Called("IsGenerated", Split(disk), IsGeneratedOutcome(cfg, Split(disk)))

EvalShouldReplace ==
    /\ Running
    /\ \E i \in 1..Len(Split(disk)) :
          Called("ShouldReplace", Split(disk)[i], ShouldReplaceOutcome(cfg, Split(disk)[i]))

EvalIsThirdPartyCopyright ==
    /\ Running
    /\ \E i \in 1..Len(Split(disk)) :
          Called("IsThirdPartyCopyright", Split(disk)[i],
                 IsThirdPartyCopyrightOutcome(cfg, Split(disk)[i]))

NextPatterns ==
    \/ EvalMatchesPath
    \/ EvalIsGenerated
    \/ EvalShouldReplace
    \/ EvalIsThirdPartyCopyright

SpecPatterns == InitPatterns /\ [][NextPatterns]_vars

\* Fixer.ProcessContent on the content, as the fuzz test calls it
Normalize ==
    /\ pcRuns = 0
    /\ out1' = ProcessContent(cfg, orig, ".go")
    /\ pcRuns' = 1
    /\ UNCHANGED <<cfg, name, orig, disk, before, ret, runs, loc, out2, Fixed, probe>>

\* Fixer.ProcessContent on its own output
NormalizeAgain ==
    /\ pcRuns = 1
    /\ out2' = ProcessContent(cfg, out1, ".go")
    /\ pcRuns' = 2
    /\ UNCHANGED <<cfg, name, orig, disk, before, ret, runs, loc, out1, Fixed, probe>>

NextContent == Normalize \/ NormalizeAgain

SpecContent == Init /\ [][NextContent]_vars

\* fixFile on the file and ProcessContent on its content
NextAgree == FixFile \/ Normalize

SpecAgree == InitCheck /\ [][NextAgree]_vars

\* a file with a generated marker
InitMarker ==
    /\ cfg \in MarkerConfigs
    /\ name = GoTest
    /\ \E ls \in FilesOf(MarkerLines) : orig = Join(ls)
    /\ disk = orig
    /\ before = orig
    /\ ret = FALSE
    /\ runs = 0
    /\ loc = NoRun
    /\ out1 = <<>>
    /\ out2 = <<>>
    /\ pcRuns = 0
    /\ Fixed = 0
    /\ probe = <<>>

NextMarker == FixFile \/ Normalize \/ NormalizeAgain \/ CheckFile

SpecMarker == InitMarker /\ [][NextMarker]_vars

\* ------------------------------------------------------------ claims

\* the header window of the last fixFile call, as lines of the content it read
Window(content, from, to) == SubSeq(Split(content), from + 1, to)

HasLine(ls, l) == \E i \in 1..Len(ls) : SameTrimmed(ls[i], l)

CanonCopyright == GetCopyrightHeader(cfg, ".go")

CanonLicense == GetLicenseHeader(cfg, ".go")

\* C1: ProcessContent is idempotent: applied to its own output it returns
\* that output unchanged.
C1_Idempotent == pcRuns = 2 => out2 = out1

\* C2: fixFile reaches a fixed point after one run: a second call returns
\* false and leaves the file unchanged.
C2_FixedPoint == runs >= 2 => (ret = FALSE /\ disk = before)

\* C3: when the header window holds the canonical copyright line and, with
\* the license enabled, the canonical license line, fixFile returns false
\* and does not write, whatever else the window holds.
C3_ShortCircuit ==
    (/\ runs >= 1 /\ loc.scanned
     /\ HasLine(Window(before, loc.startLine, loc.maxScan), CanonCopyright)
     /\ (cfg.licenseEnabled =>
            HasLine(Window(before, loc.startLine, loc.maxScan), CanonLicense)))
    => (ret = FALSE /\ disk = before)

\* the window of the file as fixFile left it, at the same offset and limit
WindowAfter ==
    Window(disk, loc.startLine,
           MaxScan(cfg, Split(disk), loc.startLine))

\* C4: after fixFile returns, the header window of the file holds the
\* canonical copyright line and, with the license enabled, the canonical
\* license line.
C4_HeaderPresent ==
    (runs >= 1 /\ loc.scanned)
    => /\ HasLine(WindowAfter, CanonCopyright)
       /\ (cfg.licenseEnabled => HasLine(WindowAfter, CanonLicense))

\* ---- the lines of a call, for the claims below

InLines == Split(before)

OutLines == Split(disk)

MatchesReplace(l) == MatchesAny(cfg.replacePatterns, l)

MatchesThirdParty(l) == MatchesAny(cfg.thirdPartyPatterns, l)

\* a third-party line: a notice of another holder, neither a replace target
\* nor a header of the tool's own shape
ThirdPartyKind(l) ==
    /\ MatchesThirdParty(l)
    /\ ~MatchesReplace(l)
    /\ ~IsOwnCopyrightLine(cfg, l, ".go")

\* a body line: not blank, not canonical, and no recognizer or pattern matches
IsBodyLine(l) ==
    /\ TrimSpace(l) # <<>>
    /\ ~SameTrimmed(l, CanonCopyright)
    /\ ~(cfg.licenseEnabled /\ SameTrimmed(l, CanonLicense))
    /\ ~MatchesReplace(l)
    /\ ~IsOwnCopyrightLine(cfg, l, ".go")
    /\ ~isSPDXHeaderLine(l, "//")
    /\ ~MatchesThirdParty(l)

\* the new header block of a line-comment file
HeaderBlock == <<CanonCopyright>> \o (IF cfg.licenseEnabled THEN <<CanonLicense>> ELSE <<>>)

\* ---- C5

ContentIn == Split(orig)

ContentOut == Split(out1)

ShebangOffset == IF HasPrefix(ContentOut[1], <<"#", "!">>) THEN 1 ELSE 0

ContentLimit ==
    IF cfg.maxScanLines > 0
    THEN Min(ShebangOffset + cfg.maxScanLines, Len(ContentIn))
    ELSE Len(ContentIn)

ContentThirdParty ==
    SelectSeq(SubSeq(ContentIn, ShebangOffset + 1, ContentLimit),
              LAMBDA l : MatchesThirdParty(l) /\ ~MatchesReplace(l))

StartsWith(ls, p) == Len(ls) >= Len(p) /\ SubSeq(ls, 1, Len(p)) = p

\* C5 as stated: under every action the output line at the shebang offset is
\* the canonical copyright line, the next the canonical license line (when
\* enabled), and the line after that is blank.
C5_HeaderAtOffset ==
    pcRuns >= 1 =>
        StartsWith(SubSeq(ContentOut, ShebangOffset + 1, Len(ContentOut)),
                   HeaderBlock \o <<<<>>>>)

\* C5 amended: at the shebang offset the output holds, in this order, the
\* window's third-party lines (action below only), the canonical copyright
\* line, the canonical license line (when enabled), the window's third-party
\* lines (action above only), and a blank line; a generated file that the
\* configuration skips is returned as it is.
C5_HeaderMaterialAtOffset ==
    (pcRuns >= 1 /\ ~IsGenerated(cfg, ContentIn)) =>
        StartsWith(SubSeq(ContentOut, ShebangOffset + 1, Len(ContentOut)),
                   (IF cfg.action = "below" THEN ContentThirdParty ELSE <<>>)
                   \o HeaderBlock
                   \o (IF cfg.action = "above" THEN ContentThirdParty ELSE <<>>)
                   \o <<<<>>>>)

\* a shebang file with a third-party line, normalized under 'below'
C5_Witness ==
    /\ pcRuns >= 1 /\ cfg.action = "below" /\ cfg.licenseEnabled
    /\ ShebangOffset = 1 /\ ContentThirdParty # <<>>

\* ---- C6

\* C6: every body line of a file that fixFile rewrites is in the output, in
\* the same order, and no other body line is.
C6_BodyPreserved ==
    (runs >= 1 /\ ret) => SelectSeq(OutLines, IsBodyLine) = SelectSeq(InLines, IsBodyLine)

\* ---- C7

\* the header material fixFile put at the offset
EmittedMaterial ==
    SubSeq(OutLines, loc.startLine + 1,
           loc.startLine + Len(HeaderBlock)
             + (IF cfg.action \in {"above", "below"} THEN Len(loc.thirdPartyLines) ELSE 0))

\* C7: a line that matches a replace pattern is never third-party, is never
\* collected into the third-party list, and is never re-emitted next to the
\* header.
C7_ReplacePrecedence ==
    /\ \A i \in 1..Len(InLines) :
          MatchesReplace(InLines[i]) => ~IsThirdPartyCopyright(cfg, InLines[i])
    /\ \A i \in 1..Len(loc.thirdPartyLines) : ~MatchesReplace(loc.thirdPartyLines[i])
    /\ (runs >= 1 /\ ret) =>
          \A i \in 1..Len(EmittedMaterial) : ~MatchesReplace(EmittedMaterial[i])

\* a rewritten file whose window held a line that a replace pattern and a
\* third-party pattern both match, next to a real third-party line
C7_Witness ==
    /\ runs >= 1 /\ ret /\ cfg.action = "above"
    /\ loc.thirdPartyLines # <<>>
    /\ \E i \in (loc.startLine + 1)..loc.maxScan :
          MatchesReplace(InLines[i]) /\ MatchesThirdParty(InLines[i])

\* ---- C8

WindowThirdParty ==
    SelectSeq(SubSeq(InLines, loc.startLine + 1, loc.maxScan), ThirdPartyKind)

BeyondWindow == SubSeq(InLines, loc.maxScan + 1, Len(InLines))

RestAfter(n) == SubSeq(OutLines, loc.startLine + n + 1, Len(OutLines))

KeptUnderLeave(l) == ThirdPartyKind(l) \/ IsBodyLine(l)

\* C9: under 'leave' or an unspecified action a rewrite puts the header block
\* at the offset and keeps every third-party line in the body, once and in
\* its place among the other body lines.
C9_LeaveKeeps ==
    (runs >= 1 /\ ret /\ cfg.action \in {"leave", ""})
    => /\ StartsWith(RestAfter(0), HeaderBlock)
       /\ SelectSeq(RestAfter(Len(HeaderBlock)), KeptUnderLeave)
            = SelectSeq(SubSeq(InLines, loc.startLine + 1, Len(InLines)), KeptUnderLeave)

\* ---- C10

RECURSIVE IsSubsequence(_, _)
IsSubsequence(a, b) ==
    IF a = <<>> THEN TRUE
    ELSE IF b = <<>> THEN FALSE
    ELSE IF Head(a) = Head(b) THEN IsSubsequence(Tail(a), Tail(b))
    ELSE IsSubsequence(a, Tail(b))

\* C10: under 'replace' a rewrite yields the prefix, the new header block, a
\* blank line and lines of the input in their order; of the lines a
\* third-party pattern matches only those beyond the window remain.
C10_Replaced ==
    (runs >= 1 /\ ret /\ cfg.action = "replace")
    => LET rest == RestAfter(Len(HeaderBlock)) IN
       /\ SubSeq(OutLines, 1, loc.startLine) = SubSeq(InLines, 1, loc.startLine)
       /\ StartsWith(RestAfter(0), HeaderBlock)
       /\ rest # <<>> /\ TrimSpace(rest[1]) = <<>>
       /\ IsSubsequence(IF loc.startLine < Len(InLines)
                           /\ TrimSpace(InLines[loc.startLine + 1]) = <<>>
                        THEN rest ELSE Tail(rest),
                        SubSeq(InLines, loc.startLine + 1, Len(InLines)))
       /\ SelectSeq(rest, MatchesThirdParty) = SelectSeq(BeyondWindow, MatchesThirdParty)

\* a file with a third-party line and code, rewritten under 'replace'
C10_Witness ==
    /\ runs >= 1 /\ ret /\ cfg.action = "replace"
    /\ WindowThirdParty # <<>>
    /\ \E i \in 1..Len(OutLines) : IsBodyLine(OutLines[i])

\* ---- C11

\* the lines at index >= offset + max_scan_lines of the file the call read
BeyondLimit ==
    SubSeq(InLines, Min(loc.startLine + cfg.maxScanLines, Len(InLines)) + 1, Len(InLines))

WithinLimit ==
    SubSeq(InLines, loc.startLine + 1, Min(loc.startLine + cfg.maxScanLines, Len(InLines)))

\* C11: with a bounded window a rewrite copies every line beyond the window
\* unchanged as the suffix of the output; and a canonical header found only
\* beyond the window does not count: the file is rewritten, the new header
\* block is put at the offset (after the window's third-party lines under
\* 'below') and the old header line stays in the suffix.
C11_BeyondWindow ==
    (runs >= 1 /\ cfg.maxScanLines > 0)
    => /\ ret => HasSuffix(OutLines, BeyondLimit)
       /\ (loc.scanned /\ ~HasLine(WithinLimit, CanonCopyright)
             /\ HasLine(BeyondLimit, CanonCopyright))
          => /\ ret
             /\ StartsWith(RestAfter(0),
                    (IF cfg.action = "below"
                     THEN SelectSeq(WithinLimit, ThirdPartyKind) ELSE <<>>) \o HeaderBlock)
             /\ HasLine(BeyondLimit, CanonCopyright)
             /\ HasSuffix(OutLines, BeyondLimit)

\* a rewrite that left a replace target and the old canonical header beyond
\* the window
C11_Witness ==
    /\ runs >= 1 /\ ret /\ cfg.maxScanLines > 0
    /\ ~HasLine(WithinLimit, CanonCopyright)
    /\ HasLine(BeyondLimit, CanonCopyright)
    /\ Len(OutLines) > Len(InLines)

\* ---- C12

\* the extension of the file of the run
NameExt == ExtString(FileExt(name))

\* the new header block in the comment style of the file of the run
NameHeaderBlock ==
    <<GetCopyrightHeader(cfg, NameExt)>>
    \o (IF cfg.licenseEnabled THEN <<GetLicenseHeader(cfg, NameExt)>> ELSE <<>>)

\* the trimmed line at an offset, empty past the end of the file
LineAt(i) == IF i < Len(InLines) THEN TrimSpace(InLines[i + 1]) ELSE <<>>

\* the offset after the shebang
OffsetShebang == IF HasPrefix(InLines[1], <<"#", "!">>) THEN 1 ELSE 0

\* ... after the XML declaration at that offset
OffsetXML ==
    IF cfg.xmlDeclaration /\ HasPrefix(LineAt(OffsetShebang), <<"<?xml">>)
    THEN OffsetShebang + 1 ELSE OffsetShebang

\* the closing lines of a frontmatter block opened at the offset
Closings ==
    {j \in (OffsetXML + 1)..(Len(InLines) - 1) : TrimSpace(InLines[j + 1]) = <<"---">>}

\* ... after the frontmatter block at that offset
OffsetFrontmatter ==
    IF /\ \E k \in 1..Len(cfg.frontmatter) : HasSuffix(name, cfg.frontmatter[k])
       /\ LineAt(OffsetXML) = <<"---">>
       /\ Closings # {}
    THEN (CHOOSE j \in Closings : \A k \in Closings : j <= k) + 1
    ELSE OffsetXML

\* ... after the markdown heading at that offset
OffsetHeading ==
    IF /\ cfg.markdownHeading /\ name[Len(name)] \in {".md", ".markdown"}
       /\ HasPrefix(LineAt(OffsetFrontmatter), <<"#", SP>>)
    THEN OffsetFrontmatter + 1 ELSE OffsetFrontmatter

WindowLines == SubSeq(InLines, loc.startLine + 1, loc.maxScan)

IsCanonical(l) ==
    SameTrimmed(l, CanonCopyright) \/ (cfg.licenseEnabled /\ SameTrimmed(l, CanonLicense))

\* a replace target: a replace pattern matches it and it is no canonical line
ReplaceTarget(l) == MatchesReplace(l) /\ ~IsCanonical(l)

PreviousLine == PreviousHeader(cfg)

\* C14: when the header window holds the copyright line rendered under an
\* earlier current_year, fixFile leaves a file that holds the newly rendered
\* copyright line and whose header window no longer holds the old line.
C14_SelfUpdating ==
    (runs >= 1 /\ loc.scanned /\ HasLine(WindowLines, PreviousLine))
    => /\ HasLine(OutLines, CanonCopyright)
       /\ ~HasLine(WindowAfter, PreviousLine)

\* ---- C15

IsMention(l) == l \in MentionLines(cfg, ExtString(ResolveExt(cfg, name)))

\* C15: fixFile keeps, unchanged and in order, every line of the file that
\* mentions the copyright or the license identifier without being a header
\* line.
C15_MentionsKept ==
    (runs >= 1 /\ loc.scanned)
    => SelectSeq(OutLines, IsMention) = SelectSeq(InLines, IsMention)

\* ---- C16

\* one of the first min(len(content), 512) bytes is a null byte
NullInFirst512(content) ==
    \E i \in 1..Len(content) :
        /\ content[i] = NUL
        /\ ByteLen(SubSeq(content, 1, i)) <= Min(ByteLen(content), 512)

CandidateExts == {cfg.smartIndicators[k].extension : k \in 1..Len(cfg.smartIndicators)}

Score(e, content, filename) == ScoreOf(cfg.smartIndicators, e, content, filename)

\* the candidates whose score is positive and strictly above every other's
StrictWinners(content, filename) ==
    {e \in CandidateExts :
        /\ Score(e, content, filename) > 0
        /\ \A d \in CandidateExts \ {e} : Score(d, content, filename) < Score(e, content, filename)}

\* C17: with indicators configured, the detection of a text file returns the
\* candidate with the strictly highest score, or .go when the top score is
\* shared or every score is zero, and it returns the same extension on every
\* call with the same content, filename and configuration.
C17_ScoringDeterministic ==
    Len(cfg.smartIndicators) > 0
    => /\ \A k \in 1..Len(probe) :
             probe[k].result # ""
             => IF StrictWinners(probe[k].content, probe[k].filename) = {}
                THEN probe[k].result = ".go"
                ELSE probe[k].result \in StrictWinners(probe[k].content, probe[k].filename)
       /\ \A j, k \in 1..Len(probe) :
             probe[j].content = probe[k].content => probe[j].result = probe[k].result

\* ---- C18

MatchesExclude(file) ==
    \E k \in 1..Len(cfg.excludePaths) : matchesPath(cfg.excludePaths[k], file)

MatchesInclude(file) ==
    \E k \in 1..Len(cfg.includePaths) : matchesPath(cfg.includePaths[k], file)

\* C18: for a file with an allowed extension ShouldProcess is true exactly
\* when the file matches no exclude pattern and, if include patterns are
\* configured, matches at least one of them.
C18_PathFilter ==
    \A k \in 1..Len(probe) :
        hasValidExt(cfg, probe[k].file)
        => (probe[k].result
            <=> /\ ~MatchesExclude(probe[k].file)
                /\ (cfg.includePaths # <<>> => MatchesInclude(probe[k].file)))

\* a file with an allowed extension that matches an include and an exclude
\* pattern was filtered
C18_Witness ==
    /\ Len(probe) >= 1
    /\ hasValidExt(cfg, probe[1].file)
    /\ MatchesInclude(probe[1].file) /\ MatchesExclude(probe[1].file)
    /\ ~probe[1].result

\* ---- C19

WellFormed(patterns) == SelectSeq(patterns, LAMBDA p : ~MalformedRegexp(p))

\* the configuration without its malformed regular expressions
WellFormedConfig ==
    [cfg EXCEPT !.generatedPatterns = WellFormed(@),
                !.replacePatterns = WellFormed(@),
                !.thirdPartyPatterns = WellFormed(@)]

WellFormedGlob(pattern) == IF MalformedGlob(pattern) THEN <<"no", "match">> ELSE pattern

\* what a call returns when the malformed patterns match nothing
AsNonMatch(call) ==
    IF call.op = "matchesPath" THEN matchesPath(WellFormedGlob(call.arg[1]), call.arg[2])
    ELSE IF call.op = "IsGenerated" THEN IsGenerated(WellFormedConfig, call.arg)
    ELSE IF call.op = "ShouldReplace" THEN ShouldReplace(WellFormedConfig, call.arg)
    ELSE IsThirdPartyCopyright(WellFormedConfig, call.arg)

\* C19: matchesPath, IsGenerated, ShouldReplace and IsThirdPartyCopyright
\* return normally under a configuration with malformed patterns, with the
\* result they have when the malformed patterns match nothing.
C19_InvalidPatternsNotFatal ==
    \A k \in 1..Len(probe) :
        /\ probe[k].result # "panic"
        /\ probe[k].result = (IF AsNonMatch(probe[k]) THEN "true" ELSE "false")

\* ---- C20

\* the configured prefix for the extension, else the built-in one
ResolvedPrefix(ext) ==
    IF ExtKey(ext) \in DOMAIN cfg.commentStyles /\ cfg.commentStyles[ExtKey(ext)] # ""
    THEN cfg.commentStyles[ExtKey(ext)]
    ELSE CASE ext = ".go" -> "//"
           [] ext \in {".sh", ".py", ".hcl", ".tf", ".yml", ".yaml"} -> "#"
           [] ext \in {".md", ".html.markdown"} -> "<!--"
           [] OTHER -> "//"

HeaderFor(p, ext, t) ==
    CASE p = "<!--" -> <<p, SP>> \o t \o <<SP, "-->">>
      [] p = "/**" -> <<SP, "*", SP>> \o t
      [] p \notin {"<!--", "/**"} /\ ext \in {".yml", ".yaml"} /\ HasColon(t)
            -> <<p, SP, "\"">> \o t \o <<"\"">>
      [] OTHER -> <<p, SP>> \o t

CopyrightText == Expand(cfg.format, CopyrightFields(cfg))

LicenseText == Expand(cfg.licenseFormat, LicenseFields(cfg))

\* C20: GetCopyrightHeader and GetLicenseHeader render the expanded text in
\* the comment style of the resolved prefix, quoted for YAML when it holds a
\* colon, and GetLicenseHeader returns the empty string when the license is
\* disabled.
C20_HeaderRendering ==
    \A k \in 1..Len(probe) :
        /\ probe[k].copyrightHeader
              = HeaderFor(ResolvedPrefix(probe[k].ext), probe[k].ext, CopyrightText)
        /\ probe[k].licenseHeader
              = IF cfg.licenseEnabled
                THEN HeaderFor(ResolvedPrefix(probe[k].ext), probe[k].ext, LicenseText)
                ELSE <<>>

\* the headers of a YAML file were rendered from a text with a colon
C20_Witness ==
    /\ Len(probe) >= 1
    /\ probe[1].ext \in {".yml", ".yaml"}
    /\ ResolvedPrefix(probe[1].ext) = "#"
    /\ cfg.licenseEnabled /\ HasColon(LicenseText)
    /\ probe[1].licenseHeader = <<"#", SP, "\"">> \o LicenseText \o <<"\"">>

\* ---- C21

\* skip_generated is on and the first or second line matches a pattern
Exempt(content) ==
    /\ cfg.skipGenerated
    /\ \E k \in 1..Min(2, Len(Split(content))) :
          MatchesAny(cfg.generatedPatterns, Split(content)[k])

HasMarker(content) ==
    \E k \in 1..Len(Split(content)) : MatchesAny(cfg.generatedPatterns, Split(content)[k])

\* C21: a file whose first or second line matches a generated pattern under
\* skip_generated is left alone by fixFile, returned unchanged by
\* ProcessContent and passed by checkFile; any other file is processed: fixFile
\* scans it, ProcessContent gives it the header, checkFile reports the header
\* it lacks.
C21_GeneratedUntouched ==
    /\ runs >= 1 => IF Exempt(before) THEN ~ret /\ disk = before /\ ~loc.scanned
                    ELSE loc.scanned
    /\ pcRuns >= 1 => IF Exempt(orig) THEN out1 = orig
                      ELSE HasLine(Split(out1), CanonCopyright)
    /\ \A k \in 1..Len(probe) :
          IF Exempt(probe[k].content) THEN probe[k].issue = ""
          ELSE ~HasLine(Split(probe[k].content), CanonCopyright) => probe[k].issue # ""

\* a file with the marker on its second line went through the three
\* operations
C21_Witness ==
    /\ runs >= 1 /\ pcRuns >= 1 /\ Len(probe) >= 1
    /\ Len(Split(orig)) >= 2
    /\ MatchesAny(cfg.generatedPatterns, Split(orig)[2])
    /\ ~MatchesAny(cfg.generatedPatterns, Split(orig)[1])
    /\ cfg.skipGenerated /\ probe[1].issue = ""

\* ---- C22

\* C22: checkFile on a file of zero bytes returns the issue "empty file".
C22_EmptyFile ==
    \A k \in 1..Len(probe) : probe[k].content = <<>> => probe[k].issue = "empty file"

\* ---- C23

\* the runs of fixFile that replaced the content on disk
Replaced == {k \in 1..Len(probe) : probe[k].written}

\* C23: FixResult.Fixed is the number of files whose content on disk was
\* replaced by the run; a file that cannot be read or cannot be written is
\* not counted as fixed.
C23_FixedCountsChanged == Fixed = Cardinality(Replaced)

\* ---- C24

\* the file types fixFile may work with: the detected type of a
\* smart-extension file, the resolved extension of any other file
EffectiveTypes ==
    IF isSmartExt(cfg, name) THEN DetectSmartExtensionType(cfg, before, name)
    ELSE {ExtString(ResolveExt(cfg, name))}

MarkdownTypes == {".md", ".markdown"}

\* the first line of the file read by the last run is a level-one heading
HeadingAtOffset == hasMarkdownHeading(Split(before))

\* C24: in files without shebang, XML declaration and frontmatter, the
\* heading exception advances the offset (from 0 to 1) exactly when the
\* effective file type is markdown, the exception is enabled and the line at
\* the offset is a level-one heading; this includes smart-extension files
\* whose content is classified as markdown.
C24_HeadingFollowsEffectiveType ==
    (runs > 0 /\ loc.scanned) =>
        /\ (EffectiveTypes \subseteq MarkdownTypes) =>
              (loc.startLine = 1 <=> (cfg.markdownHeading /\ HeadingAtOffset))
        /\ (EffectiveTypes \cap MarkdownTypes = {}) => loc.startLine = 0

\* ---- C25

\* the canonical copyright text: the header without its comment marker
CanonText(c) == SubSeq(GetCopyrightHeader(c, ".go"), 3, Len(GetCopyrightHeader(c, ".go")))

CanonLicenseText(c) == SubSeq(GetLicenseHeader(c, ".go"), 3, Len(GetLicenseHeader(c, ".go")))

\* the placement offset of checkFile in files without frontmatter
CheckOffset(content) == IF hasShebang(Split(content)) THEN 1 ELSE 0

\* the 0-based indices of the header window of checkFile
CheckWindow(content) ==
    {i \in 0..(Len(Split(content)) - 1) :
        /\ i >= CheckOffset(content)
        /\ cfg.maxScanLines > 0 => i < CheckOffset(content) + cfg.maxScanLines}

CopyrightAt(content) ==
    {i \in CheckWindow(content) : Contains(At(Split(content), i), CanonText(cfg))}

LicenseAt(content) ==
    {i \in CheckWindow(content) : Contains(At(Split(content), i), CanonLicenseText(cfg))}

Misplaced(content) == CopyrightAt(content) \ {CheckOffset(content)} # {}

\* C25: with require_at_top, a canonical copyright text on a window line other
\* than the offset line is reported as 'copyright not at top of file', before
\* any missing-license report; without require_at_top a header anywhere in
\* the window is accepted.
C25_MisplacedHeader ==
    \A k \in 1..Len(probe) :
        /\ (cfg.requireAtTop /\ Misplaced(probe[k].content))
              => probe[k].issue = "copyright not at top of file"
        /\ (~cfg.requireAtTop /\ CopyrightAt(probe[k].content) # {})
              => probe[k].issue =
                    (IF cfg.licenseEnabled /\ LicenseAt(probe[k].content) = {}
                     THEN "missing license header" ELSE "")

\* a misplaced header in a file that also lacks the license line, reported
C25_Witness ==
    \E k \in 1..Len(probe) :
        /\ cfg.requireAtTop /\ cfg.licenseEnabled
        /\ Misplaced(probe[k].content)
        /\ LicenseAt(probe[k].content) = {}
        /\ probe[k].issue = "copyright not at top of file"

\* ---- C26

\* the header material the last run wrote, and where it ends in the output
MaterialOfRun ==
    HeaderMaterial(cfg, ".go", GetCopyrightHeader(cfg, ".go"),
                   GetLicenseHeader(cfg, ".go"), loc.thirdPartyLines)

MaterialEnd == loc.startLine + Len(MaterialOfRun)

\* the last run appended the separator: the line at the offset was not blank
SeparatorAppended ==
    ~(loc.startLine < Len(Split(before))
      /\ TrimSpace(At(Split(before), loc.startLine)) = <<>>)

\* C26: when fixFile rewrites a file and appends the separator, the body
\* line that follows the separator in the output is not blank: no two blank
\* lines directly after the header material. (The empty last element that
\* Split yields for a trailing newline is not a body line.)
C26_SeparatorRule ==
    (runs > 0 /\ ret /\ SeparatorAppended /\ Len(Split(disk)) >= MaterialEnd + 3) =>
        TrimSpace(At(Split(disk), MaterialEnd + 1)) # <<>>

\* ---- C27

\* the file read by the last run opens with a block comment
OpensBlock(lines) == TrimSpace(lines[1]) \in {<<"<!--">>, <<"/**">>}

ClosesBlock(line) ==
    HasSuffix(TrimSpace(line), <<"*/">>) \/ HasSuffix(TrimSpace(line), <<"-->">>)

\* the 0-based index of the line that closes the block opened at line 0
RECURSIVE ClosingIndex(_, _)
ClosingIndex(lines, j) ==
    IF j >= Len(lines) THEN Len(lines)
    ELSE IF ClosesBlock(At(lines, j)) THEN j
    ELSE ClosingIndex(lines, j + 1)

IsHeaderLine(line) ==
    LET ext == ExtString(ResolveExt(cfg, name)) IN
    \/ ShouldReplace(cfg, line)
    \/ IsOwnCopyrightLine(cfg, line, ext)
    \/ isSPDXHeaderLine(line, CommentPrefix(cfg, ext))

\* the inner lines of the block that are not header material
OtherInner(lines) ==
    {At(lines, j) : j \in {k \in 1..(ClosingIndex(lines, 1) - 1) : ~IsHeaderLine(At(lines, k))}}

LinesOf(content) == {Split(content)[k] : k \in 1..Len(Split(content))}

\* C27: a block comment in the header window that holds a line other than
\* header material is not removed as a whole: its non-header lines are kept.
C27_MixedBlockKept ==
    (runs > 0 /\ OpensBlock(Split(before))) =>
        OtherInner(Split(before)) \subseteq LinesOf(disk)

\* ---- C29

\* the ordinary content after the line that closes the block opened at line 0
AfterBlock(lines) ==
    {At(lines, j) : j \in {k \in (ClosingIndex(lines, 1) + 1)..(Len(lines) - 1) :
                              /\ TrimSpace(At(lines, k)) # <<>>
                              /\ ~IsHeaderLine(At(lines, k))}}

\* C29: the removal of a header block ends at the line that closes the block,
\* whatever its form: the ordinary lines after the closing line are kept.
C29_RemovalStopsAtClose ==
    (runs > 0 /\ OpensBlock(Split(before))) =>
        AfterBlock(Split(before)) \subseteq LinesOf(disk)

\* ---- C28

\* the trailing-newline restoration of ProcessContent applied to an output
RestoreNewline(content, output) ==
    IF HasSuffix(content, <<NL>>) /\ ~HasSuffix(output, <<NL>>)
    THEN output \o <<NL>> ELSE output

\* C28: on a .go file (line comments, no XML declaration, frontmatter or
\* heading exception), when fixFile rewrites the file, the content it writes
\* is ProcessContent's output for the same content, up to the restoration of
\* the trailing newline.
C28_ProcessContentAgrees ==
    (runs = 1 /\ ret /\ pcRuns > 0) => RestoreNewline(orig, disk) = out1

\* ---- C30

\* C30: after fixFile has processed a readable, non-generated file, checkFile
\* with the same configuration returns no issue for it.
C30_FixThenCheck ==
    \A k \in 1..Len(probe) : probe[k].runs > 0 => probe[k].issue = ""

====
